---- MODULE Spec2Model ----
(***************************************************************************)
(* Behavioural model of the e1000 emulator core (vmuxIO/e1000-emu): the    *)
(* register bank and its BAR0 dispatch, the BAR1 proxy, the EEPROM behind  *)
(* EECD, reset, the descriptor rings, the receive and transmit pipelines   *)
(* and the interrupt cause/mask/mitigation engine, against an abstract     *)
(* host (send, DMA, trigger_interrupt, one-shot timer).                    *)
(*                                                                         *)
(* The device is single threaded: every entry point (a BAR0 or BAR1        *)
(* access, receive, timer_elapsed, reset) is one atomic action.  Guest     *)
(* memory is outside the device: what a DMA read returns is an input of    *)
(* the action that reads, and what the device writes is recorded in the    *)
(* host call log.                                                          *)
(***************************************************************************)
EXTENDS Integers, Sequences, FiniteSets, TLC

VARIABLES
    regs,                        \* Registers (e1000/registers.rs)
    rx_ring,                     \* Option<DescriptorRing>
    tx_ring,                     \* Option<DescriptorRing>
    receive_state,               \* ReceiveState
    enable_interrupt_mitigation, \* construction parameter
    interrupt_mitigation,        \* Option<InterruptMitigation>
    now,                         \* the monotonic clock, in 256 ns units
    timer,                       \* the host's one-shot timer (deadline)
    eeprom,                      \* EepromInterface (eeprom.rs)
    phy,                         \* Phy (e1000/phy.rs)
    io_addr,                     \* the BAR0 offset posted through BAR1
    microwire,                   \* what the guest has clocked on the EECD wires
                                 \* since it raised CS
    status,                      \* "running", or how the process ended
    calls,                       \* host calls issued by the last entry point
    last                         \* the last entry point, its inputs, and for a
                                 \* write the receive state it was made in

vars == <<regs, rx_ring, tx_ring, receive_state, enable_interrupt_mitigation,
          interrupt_mitigation, now, timer, eeprom, phy, io_addr, microwire,
          status, calls, last>>

----------------------------------------------------------------------------
(* Bounds of the model *)

MaxTime == 2
MaxDrain == 2

----------------------------------------------------------------------------
(* Option values: a record with some = FALSE is Rust's None *)

None == [some |-> FALSE]

Bit(w, n) == (w \div (2 ^ n)) % 2

BitSet(w, n) == Bit(w, n) = 1

----------------------------------------------------------------------------
(* Register offsets of BAR0 *)

CTRL == 0
STATUS == 8
EECD == 16
ICR == 192
ITR == 196
ICS == 200
IMS == 208
IMC == 216
RCTL == 256
TCTL == 1024
RDBAL == 10240
RDBAH == 10244
RDLEN == 10248
RDH == 10256
RDT == 10264
TDBAL == 14336
TDBAH == 14340
TDLEN == 14344
TDH == 14352
TDT == 14360
RAL0 == 21504
RAH0 == 21508
MDIC == 32

----------------------------------------------------------------------------
(* Register layouts: unpacking a written 32 bit word, packing for a read *)

CauseBit == [TXDW |-> 0, TXQE |-> 1, LSC |-> 2, RXDMT0 |-> 4, RXT0 |-> 7, MDAC |-> 9]

CauseNames == DOMAIN CauseBit

InterruptCauses_unpack(w) == {c \in CauseNames : BitSet(w, CauseBit[c])}

RECURSIVE SumBits(_)
SumBits(S) ==
    IF S = {} THEN 0
    ELSE LET c == CHOOSE x \in S : TRUE
         IN (2 ^ CauseBit[c]) + SumBits(S \ {c})

InterruptCauses_pack_low(S) == SumBits(S) % 256

InterruptCauses_pack(S) == SumBits(S)

Control_unpack(w) == [SLU |-> BitSet(w, 6), RST |-> BitSet(w, 26)]

InterruptDelay_unpack(w) == w % 65536

ReceiveControl_unpack(w) ==
    [EN |-> BitSet(w, 1), BSIZE |-> (w \div 65536) % 4,
     BSEX |-> BitSet(w, 25), SECRC |-> BitSet(w, 26)]

TransmitControl_unpack(w) == [EN |-> BitSet(w, 1)]

DescriptorBaseAddressLow_unpack(w) == (w \div 16) % (2 ^ 28)

\* All 32 bits of the word
DescriptorBaseAddressHigh_unpack(w) == w

DescriptorLength_unpack(w) == (w \div 128) % 8192

DescriptorHead_unpack(w) == w % 65536

DescriptorTail_unpack(w) == w % 65536

EepromControlAndData_unpack(w) ==
    [SK |-> BitSet(w, 0), CS |-> BitSet(w, 1), DI |-> BitSet(w, 2),
     DO |-> BitSet(w, 3), EE_REQ |-> BitSet(w, 6)]

\* All 32 bits of the word
ReceiveAddressLow_unpack(w) == w

ReceiveAddressHigh_unpack(w) == w % 65536

\* MdiControl: data in bits 0-15, the PHY register address in bits 16-20, the
\* opcode in bits 26-27, ready in bit 28, interrupt enable in bit 29
MdiControl_unpack(w) ==
    [data |-> w % 65536, register_address |-> (w \div 65536) % 32,
     opcode |-> (w \div (2 ^ 26)) % 4, ready |-> BitSet(w, 28),
     interrupt_enable |-> BitSet(w, 29)]

MdiControl_pack(m) ==
    m.data + (m.register_address * 65536) + (m.opcode * (2 ^ 26))
    + (IF m.ready THEN 2 ^ 28 ELSE 0) + (IF m.interrupt_enable THEN 2 ^ 29 ELSE 0)

Registers_default ==
    [ctrl |-> [SLU |-> FALSE, RST |-> FALSE],
     status |-> [LU |-> FALSE],
     eecd |-> [SK |-> FALSE, CS |-> FALSE, DI |-> FALSE, DO |-> FALSE,
               EE_REQ |-> FALSE],
     interrupt_throttling |-> 0,
     interrupt_cause |-> {},
     interrupt_mask |-> {},
     interrupt_temp |-> {},
     rctl |-> [EN |-> FALSE, BSIZE |-> 0, BSEX |-> FALSE, SECRC |-> FALSE],
     tctl |-> [EN |-> FALSE],
     rd_ba_l |-> 0, rd_ba_h |-> 0, rd_len |-> 0, rd_h |-> 0, rd_t |-> 0,
     td_ba_l |-> 0, td_ba_h |-> 0, td_len |-> 0, td_h |-> 0, td_t |-> 0,
     ral0 |-> 0, rah0 |-> 0,
     mdic |-> [data |-> 0, register_address |-> 0, opcode |-> 0, ready |-> FALSE,
               interrupt_enable |-> FALSE]]

\* A 64 bit guest address (low << 4) | (high << 32), kept as its two halves
get_receive_descriptor_base_address(r) == [high |-> r.rd_ba_h, low |-> r.rd_ba_l * 16]

get_transmit_descriptor_base_address(r) == [high |-> r.td_ba_h, low |-> r.td_ba_l * 16]

\* The MAC as the little endian words of RAL0 and RAH0
set_mac(r, mac) ==
    [r EXCEPT !.ral0 = mac[1] + (256 * mac[2]) + (65536 * mac[3]) + (16777216 * mac[4]),
              !.rah0 = mac[5] + (256 * mac[6])]

get_itr_interval(r) ==
    IF r.interrupt_throttling = 0 THEN None
    ELSE [some |-> TRUE, duration |-> r.interrupt_throttling]

InterruptCauses_modify_set(self, mask, clear) == self \cup mask

InterruptCauses_modify(self, mask, clear) ==
    IF clear THEN self \ mask ELSE self \cup mask

----------------------------------------------------------------------------
(* The device as one value (the fields of E1000 and of the host context),  *)
(* so that a handler is a function from device to device                   *)

Dev ==
    [regs |-> regs, rx_ring |-> rx_ring, tx_ring |-> tx_ring,
     receive_state |-> receive_state,
     enable_interrupt_mitigation |-> enable_interrupt_mitigation,
     interrupt_mitigation |-> interrupt_mitigation,
     now |-> now, timer |-> timer, eeprom |-> eeprom, phy |-> phy,
     io_addr |-> io_addr, status |-> status, calls |-> <<>>]

Call(s, c) == [s EXCEPT !.calls = Append(@, c)]

Panic(s) == [s EXCEPT !.status = "panicked"]

----------------------------------------------------------------------------
(* Host context (bin/nic-emu-cli/ctx.rs).  Every call is logged with the   *)
(* state the device was in when it made the call.                          *)

trigger_interrupt(s) ==
    Call(s, [op |-> "trigger_interrupt",
             cause |-> s.regs.interrupt_cause, mask |-> s.regs.interrupt_mask,
             mitigation |-> s.interrupt_mitigation, now |-> s.now])

set_timer(s, duration) ==
    Call([s EXCEPT !.timer = [some |-> TRUE, at |-> s.now + duration]],
         [op |-> "set_timer", duration |-> duration,
          cause |-> s.regs.interrupt_cause, mask |-> s.regs.interrupt_mask])

delete_timer_kept(s) == Call(s, [op |-> "delete_timer"])

delete_timer(s) ==
    Call([s EXCEPT !.timer = None], [op |-> "delete_timer"])

----------------------------------------------------------------------------
(* Interrupt engine (e1000/interrupts.rs) *)

is_active_at(mitigation, time) == mitigation.expiration > time

\* mitigate_interrupts installing a record that claims a pending timer
mitigate_interrupts_armed(s, for_max) ==
    [s EXCEPT !.interrupt_mitigation =
        [some |-> TRUE, expiration |-> s.now + for_max, interrupt_after |-> TRUE]]

mitigate_interrupts(s, for_max) ==
    LET new_expiration == s.now + for_max
        m == s.interrupt_mitigation
    IN IF m.some
       THEN IF ~is_active_at(m, new_expiration) THEN s
            ELSE LET s1 == [s EXCEPT !.interrupt_mitigation.expiration = new_expiration]
                 IN IF m.interrupt_after THEN set_timer(s1, for_max) ELSE s1
       ELSE [s EXCEPT !.interrupt_mitigation =
                [some |-> TRUE, expiration |-> new_expiration, interrupt_after |-> FALSE]]

\* interrupt_candidate without the test of the mitigation window
interrupt_candidate_no_window(s, d) ==
    LET m == s.interrupt_mitigation
        s1 == IF m.some /\ m.interrupt_after THEN delete_timer(s) ELSE s
        s2 == trigger_interrupt([s1 EXCEPT !.interrupt_mitigation = None])
        itr == get_itr_interval(s2.regs)
    IN IF s2.enable_interrupt_mitigation /\ itr.some
       THEN [s2 EXCEPT !.now = @ + d,
                       !.interrupt_mitigation =
                           [some |-> TRUE, expiration |-> s2.now + d + itr.duration,
                            interrupt_after |-> FALSE]]
       ELSE s2

\* interrupt_candidate arming the timer at every suppressed candidate
interrupt_candidate_rearming(s, d) ==
    LET m == s.interrupt_mitigation
    IN IF m.some /\ is_active_at(m, s.now)
       THEN [set_timer(s, m.expiration - s.now)
                EXCEPT !.interrupt_mitigation.interrupt_after = TRUE]
       ELSE interrupt_candidate_no_window(
                [s EXCEPT !.interrupt_mitigation.some = FALSE], d)

\* interrupt_candidate discarding an expired record without deleting the
\* timer it had armed
interrupt_candidate_keeping_timer(s, d) ==
    LET m == s.interrupt_mitigation
    IN IF m.some /\ is_active_at(m, s.now)
       THEN IF ~m.interrupt_after
            THEN [set_timer(s, m.expiration - s.now)
                     EXCEPT !.interrupt_mitigation.interrupt_after = TRUE]
            ELSE s
       ELSE interrupt_candidate_no_window(
                [s EXCEPT !.interrupt_mitigation = None], d)

\* interrupt() after its cause & mask test: mitigation, the host call, re-arming.
\* d is the time that passes before mitigate_interrupts reads the clock again.
interrupt_candidate(s, d) ==
    LET m == s.interrupt_mitigation
    IN IF m.some /\ is_active_at(m, s.now)
       THEN IF ~m.interrupt_after
            THEN [set_timer(s, m.expiration - s.now)
                     EXCEPT !.interrupt_mitigation.interrupt_after = TRUE]
            ELSE s
       ELSE LET s1 == IF m.some /\ m.interrupt_after THEN delete_timer(s) ELSE s
                s2 == trigger_interrupt([s1 EXCEPT !.interrupt_mitigation = None])
                itr == get_itr_interval(s2.regs)
            IN IF s2.enable_interrupt_mitigation /\ itr.some
               THEN mitigate_interrupts([s2 EXCEPT !.now = @ + d], itr.duration)
               ELSE s2

\* interrupt() without the cause & mask test
interrupt_unmasked(s, d) == interrupt_candidate(s, d)

interrupt(s, d) ==
    IF s.regs.interrupt_cause \cap s.regs.interrupt_mask = {} THEN s
    ELSE interrupt_candidate(s, d)

\* timer_elapsed without the test of interrupt_after
timer_elapsed_unchecked(s, d) ==
    LET m == s.interrupt_mitigation
    IN IF ~m.some THEN s
       ELSE IF is_active_at(m, s.now) THEN s
       ELSE interrupt([s EXCEPT !.interrupt_mitigation = None], d)

timer_elapsed(s, d) ==
    LET m == s.interrupt_mitigation
    IN IF ~m.some THEN s
       ELSE IF ~m.interrupt_after THEN s
       ELSE IF is_active_at(m, s.now) THEN s
       ELSE interrupt([s EXCEPT !.interrupt_mitigation = None], d)

report(s, causes, d) ==
    interrupt([s EXCEPT !.regs.interrupt_cause = @ \cup causes], d)

report_txdw_and_txqe(s, d) == report(s, {"TXDW", "TXQE"}, d)

report_txqe(s, d) == report(s, {"TXQE"}, d)

report_lsc(s, d) == report(s, {"LSC"}, d)

report_rxt0(s, d) == report(s, {"RXT0"}, d)

report_mdac(s, d) == report(s, {"MDAC"}, d)

----------------------------------------------------------------------------
(* Descriptor rings (e1000/descriptors.rs) *)

DESCRIPTOR_LENGTH == 16

is_empty(ring) == ring.head = ring.tail

advance_head(ring) == [ring EXCEPT !.head = (ring.head + 1) % ring.length]

\* read_descriptor_raw reads the whole ring and takes the index-th chunk
dma_read_ring(s, ring) ==
    Call(s, [op |-> "dma_read", address |-> ring.ring_address,
             len |-> ring.length * DESCRIPTOR_LENGTH])

\* "Descriptor not in mapping": the ring has no chunk of that index
in_mapping(ring, index) == index < ring.length

\* write_descriptor: the whole ring is read, the slot replaced, and written
write_descriptor(s, ring, desc, index) ==
    Call(dma_read_ring(s, ring),
         [op |-> "dma_write", address |-> ring.ring_address,
          len |-> ring.length * DESCRIPTOR_LENGTH, slot |-> index, desc |-> desc])

\* read_head reading the head slot of an empty ring as well
read_head_of_empty(s, which) ==
    LET ring == s[which]
    IN [dev |-> dma_read_ring(s, ring),
        result |-> IF in_mapping(ring, ring.head) THEN "Ok"
                   ELSE "DescriptorNotInMapping"]

\* read_head / read_head_raw on the ring s[which] ("rx_ring" or "tx_ring"):
\* an empty ring is refused before any DMA; the result is [dev, result]
read_head(s, which) ==
    LET ring == s[which]
    IN IF is_empty(ring) THEN [dev |-> s, result |-> "EmptyRingHeadAccess"]
       ELSE [dev |-> dma_read_ring(s, ring),
             result |-> IF in_mapping(ring, ring.head) THEN "Ok"
                        ELSE "DescriptorNotInMapping"]

\* write_and_advance_head on the ring s[which]: an empty ring is refused
\* before any DMA, else the head slot is written and head advances
write_and_advance_head(s, which, desc) ==
    LET ring == s[which]
    IN IF is_empty(ring) THEN [dev |-> s, result |-> "EmptyRingHeadAccess"]
       ELSE IF ~in_mapping(ring, ring.head)
       THEN [dev |-> dma_read_ring(s, ring), result |-> "DescriptorNotInMapping"]
       ELSE [dev |-> [write_descriptor(s, ring, desc, ring.head)
                         EXCEPT ![which] = advance_head(ring)],
             result |-> "Ok"]

\* setup_rx_ring taking head for tail and tail for head
setup_rx_ring_swapped(s) ==
    [s EXCEPT !.rx_ring =
        [some |-> TRUE,
         ring_address |-> get_receive_descriptor_base_address(s.regs),
         length |-> s.regs.rd_len * 8,
         head |-> s.regs.rd_t,
         tail |-> s.regs.rd_h]]

\* length * 8 descriptors, head and tail as the registers hold them
setup_rx_ring(s) ==
    [s EXCEPT !.rx_ring =
        [some |-> TRUE,
         ring_address |-> get_receive_descriptor_base_address(s.regs),
         length |-> s.regs.rd_len * 8,
         head |-> s.regs.rd_h,
         tail |-> s.regs.rd_t]]

setup_tx_ring(s) ==
    [s EXCEPT !.tx_ring =
        [some |-> TRUE,
         ring_address |-> get_transmit_descriptor_base_address(s.regs),
         length |-> s.regs.td_len * 8,
         head |-> s.regs.td_h,
         tail |-> s.regs.td_t]]

\* The number of descriptors the hardware owns: (tail - head) mod length
hardware_owned_descriptors(ring) == (ring.tail - ring.head) % ring.length

----------------------------------------------------------------------------
(* Receive pipeline (e1000/receive.rs) *)

RX_QUEUE_RESERVE == 1

\* should_throttle keeping no descriptor in reserve
should_throttle_no_reserve(hw_descriptors) == hw_descriptors < RX_QUEUE_RESERVE

should_throttle(hw_descriptors) == hw_descriptors <= RX_QUEUE_RESERVE

\* update_rx_throttling that only ever takes the receiver back online
update_rx_throttling_resuming(s) ==
    IF ~s.rx_ring.some THEN s
    ELSE IF s.rx_ring.length = 0 THEN Panic(s)
    ELSE IF /\ s.receive_state = "Throttled"
            /\ ~should_throttle(hardware_owned_descriptors(s.rx_ring))
    THEN [s EXCEPT !.receive_state = "Online"]
    ELSE s

\* A ring of length 0 has no remainder to take: the process ends there
update_rx_throttling(s) ==
    IF ~s.rx_ring.some THEN s
    ELSE IF s.rx_ring.length = 0 THEN Panic(s)
    ELSE LET hw_descriptors == hardware_owned_descriptors(s.rx_ring)
             currently_throttled == s.receive_state = "Throttled"
         IN IF ~currently_throttled /\ should_throttle(hw_descriptors)
            THEN [s EXCEPT !.receive_state = "Throttled"]
            ELSE IF currently_throttled /\ ~should_throttle(hw_descriptors)
            THEN [s EXCEPT !.receive_state = "Online"]
            ELSE s

get_buffer_size(rctl) ==
    LET size == CASE rctl.BSIZE = 0 -> 2048
                  [] rctl.BSIZE = 1 -> 1024
                  [] rctl.BSIZE = 2 -> 512
                  [] rctl.BSIZE = 3 -> 256
    IN IF rctl.BSEX THEN size * 16 ELSE size

\* received_length never counting the frame check sequence
received_length_raw(s, received) == received.len

\* The adjusted length the descriptor reports
received_length(s, received) ==
    IF ~s.regs.rctl.SECRC THEN received.len + 4 ELSE received.len

\* receive(frame): descriptor is what the DMA read of the head slot returns.
\* The result is the device with result = "Ok" or the error.
receive(s, received, descriptor, d) ==
    LET ring == s.rx_ring
        Err(t, e) == [dev |-> t, result |-> e]
    IN IF received.len = 0 \/ s.receive_state # "Online"
       THEN Err(Panic(s), "panic")
       ELSE IF ~ring.some THEN Err(s, "RingNotInitialized")
       ELSE LET head == read_head(s, "rx_ring")
                s1 == head.dev
            IN IF head.result # "Ok" THEN Err(s1, head.result)
               ELSE LET len == received_length(s1, received)
                        buffer_size == get_buffer_size(s1.regs.rctl)
                        desc == [descriptor EXCEPT !.length = len % 65536,
                                                   !.status_eop = TRUE,
                                                   !.status_dd = TRUE]
                    IN IF len > buffer_size THEN Err(Panic(s1), "panic")
                       ELSE IF descriptor.buffer = 0 THEN Err(Panic(s1), "panic")
                       ELSE LET s2 == Call(s1, [op |-> "dma_prepare",
                                                address |-> descriptor.buffer,
                                                len |-> buffer_size])
                                s3 == Call(s2, [op |-> "dma_write",
                                                address |-> descriptor.buffer,
                                                data |-> received, offset |-> 0])
                                written == write_and_advance_head(s3, "rx_ring", desc)
                                s5 == written.dev
                                s6 == [s5 EXCEPT !.regs.rd_h = s5.rx_ring.head % 65536]
                                s7 == update_rx_throttling(s6)
                            IN IF written.result # "Ok" THEN Err(s5, written.result)
                               ELSE [dev |-> report_rxt0(s7, d), result |-> "Ok"]

----------------------------------------------------------------------------
(* Transmit pipeline (e1000/transmit.rs) *)

TransmitDescriptorSequence_default ==
    [data |-> <<>>, done |-> FALSE, tcp_context |-> None,
     insert_ip_checksum |-> FALSE, insert_tcp_checksum |-> FALSE]

report_status(desc) ==
    CASE desc.kind = "Legacy" -> desc.cmd_rs
      [] desc.kind = "TcpContext" -> desc.tucmd_rs
      [] desc.kind = "TcpData" -> desc.dcmd_rs

\* read_to_buffer keeping only the bytes of the last buffer read
read_to_buffer_replacing(t, desc) ==
    IF desc.buffer = 0 THEN [t EXCEPT !.result = "Err"]
    ELSE [t EXCEPT !.seq.data = desc.data]

\* read_to_buffer: a null buffer address is an error, else the buffer's bytes
\* (desc.data, desc.length of them) are appended
read_to_buffer(t, desc) ==
    IF desc.buffer = 0 THEN [t EXCEPT !.result = "Err"]
    ELSE LET s1 == Call(t.dev, [op |-> "dma_prepare", address |-> desc.buffer, len |-> 4096])
             s2 == Call(s1, [op |-> "dma_read", address |-> desc.buffer, len |-> Len(desc.data)])
         IN [t EXCEPT !.dev = s2, !.seq.data = @ \o desc.data]

\* add_descriptor taking a TCP data descriptor without a context as well
add_descriptor_any_data(t, desc) ==
    IF desc.kind = "TcpContext"
    THEN [t EXCEPT !.seq.tcp_context = [some |-> TRUE, desc |-> desc]]
    ELSE LET r == read_to_buffer(t, desc)
         IN IF r.result = "Err" THEN r
            ELSE [r EXCEPT !.seq.done =
                      IF desc.kind = "Legacy" THEN desc.cmd_eop ELSE desc.dcmd_eop]

\* add_descriptor on t = [dev, seq, result]: result "Ok", "Err" or "panic"
add_descriptor(t, desc) ==
    CASE desc.kind = "Legacy" ->
            IF t.seq.tcp_context.some THEN [t EXCEPT !.result = "Err"]
            ELSE IF desc.cmd_ic THEN [t EXCEPT !.result = "panic"]
            ELSE LET r == read_to_buffer(t, desc)
                 IN IF r.result = "Err" THEN r
                    ELSE [r EXCEPT !.seq.done = desc.cmd_eop]
      [] desc.kind = "TcpContext" ->
            IF t.seq.tcp_context.some THEN [t EXCEPT !.result = "Err"]
            ELSE [t EXCEPT !.seq.tcp_context = [some |-> TRUE, desc |-> desc]]
      [] desc.kind = "TcpData" ->
            IF ~t.seq.tcp_context.some THEN [t EXCEPT !.result = "Err"]
            ELSE LET t1 == IF t.seq.data = <<>>
                           THEN [t EXCEPT !.seq.insert_ip_checksum = desc.popts_ixsm,
                                          !.seq.insert_tcp_checksum = desc.popts_txsm]
                           ELSE t
                     r == read_to_buffer(t1, desc)
                 IN IF r.result = "Err" THEN r
                    ELSE [r EXCEPT !.seq.done = desc.dcmd_eop]

\* u16::to_be_bytes
to_be_bytes(v) == <<(v \div 256) % 256, v % 256>>

\* data[offset .. offset + n], offsets counted from 0
Slice(data, offset, n) == SubSeq(data, offset + 1, offset + n)

\* A packet being patched is [data, ok]; ok is lost by an index outside data,
\* which ends the process.  Put is copy_from_slice at data[offset .. offset + n].
Put(p, offset, n, bytes) ==
    IF ~p.ok \/ offset + n > Len(p.data) THEN [p EXCEPT !.ok = FALSE]
    ELSE [p EXCEPT !.data = [i \in 1 .. Len(p.data) |->
                                IF i > offset /\ i <= offset + n
                                THEN bytes[i - offset] ELSE p.data[i]]]

\* wrapping_add_to_u16_be_bytes / wrapping_add_to_u32_be_bytes: the big endian
\* number in bytes plus by, the carry out of the first byte dropped
RECURSIVE wrapping_add_to_be_bytes(_, _)
wrapping_add_to_be_bytes(bytes, by) ==
    IF bytes = <<>> THEN <<>>
    ELSE LET n == Len(bytes)
             v == bytes[n] + by
         IN Append(wrapping_add_to_be_bytes(SubSeq(bytes, 1, n - 1), v \div 256),
                   v % 256)

\* Checksum::add_bytes: the sum of the big endian 16 bit words, an odd last
\* byte padded with zero
RECURSIVE Sum16(_)
Sum16(bytes) ==
    IF bytes = <<>> THEN 0
    ELSE IF Len(bytes) = 1 THEN bytes[1] * 256
    ELSE (bytes[1] * 256) + bytes[2] + Sum16(SubSeq(bytes, 3, Len(bytes)))

\* The carries folded back in (ones' complement sum of 16 bits)
normalize(sum) == IF sum = 0 THEN 0 ELSE ((sum - 1) % 65535) + 1

\* Checksum::checksum: the complement of the folded sum
checksum(bytes) == to_be_bytes(65535 - normalize(Sum16(bytes)))

\* internet_checksum::update: the checksum after old is replaced by new
update(previous, old, new) ==
    to_be_bytes(65535 - normalize((65535 - ((previous[1] * 256) + previous[2]))
                                  + (65535 - normalize(Sum16(old)))
                                  + normalize(Sum16(new))))

write_internet_checksum(p, offset, start, inclusive_end) ==
    IF ~p.ok THEN p
    ELSE LET len == Len(p.data)
             end == IF inclusive_end # 0 THEN inclusive_end + 1 ELSE len
         IN IF start > end \/ end > len THEN [p EXCEPT !.ok = FALSE]
            ELSE Put(p, offset, 2, checksum(SubSeq(p.data, start + 1, end)))

\* wrapping_add_to_u16_be_bytes / _u32_ on the n bytes of the packet at offset
wrapping_add_at(p, offset, n, by) ==
    Put(p, offset, n, wrapping_add_to_be_bytes(Slice(p.data, offset, n), by))

\* update_prototype_headers, steps 1 and 2: the IP length field, and for IPv4
\* the identification
update_ip_header(p, tcp_context, segment_index) ==
    LET ip_offset == tcp_context.ip_css
        ip_total_length ==
            to_be_bytes((tcp_context.mss + tcp_context.hdrlen - ip_offset) % 65536)
    IN IF tcp_context.tucmd_ip
       THEN wrapping_add_at(Put(p, ip_offset + 2, 2, ip_total_length),
                            ip_offset + 4, 2, segment_index % 65536)
       ELSE Put(p, ip_offset + 4, 2, ip_total_length)

\* update_prototype_headers: the partial TCP checksum updated by the length
update_partial_checksum(p, tcp_context, length_after_ip, tcp_checksum_offloaded) ==
    IF tcp_checksum_offloaded
    THEN Put(p, tcp_context.tu_cso, 2,
             update(Slice(p.data, tcp_context.tu_cso, 2), length_after_ip, <<0, 0>>))
    ELSE p

\* update_prototype_headers, step 4: FIN and PSH cleared if not last frame
clear_fin_psh(p, offset, last_frame) ==
    IF last_frame THEN p
    ELSE Put(p, offset, 1,
             <<p.data[offset + 1] - Bit(p.data[offset + 1], 0)
                                  - (8 * Bit(p.data[offset + 1], 3))>>)

\* update_prototype_headers, steps 3 to 5: TCP sequence number and flags, or
\* the UDP length
update_tcp_udp_header(p, tcp_context, segment_index, last_frame, length_after_ip) ==
    IF tcp_context.tucmd_tcp
    THEN clear_fin_psh(wrapping_add_at(p, tcp_context.tu_css + 4, 4,
                                       tcp_context.mss * segment_index),
                       tcp_context.tu_css + 13, last_frame)
    ELSE Put(p, tcp_context.tu_css + 4, 2, length_after_ip)

\* update_prototype_headers on the packet p of a segment
update_prototype_headers(p, tcp_context, segment_index, last_frame, tcp_checksum_offloaded) ==
    LET length_after_ip == to_be_bytes((Len(p.data) - tcp_context.tu_css) % 65536)
    IN update_tcp_udp_header(
           update_partial_checksum(update_ip_header(p, tcp_context, segment_index),
                                   tcp_context, length_after_ip,
                                   tcp_checksum_offloaded),
           tcp_context, segment_index, last_frame, length_after_ip)

\* The chunks of data of at most size elements each, in order
chunks(data, size) ==
    [i \in 1 .. ((Len(data) + size - 1) \div size) |->
        SubSeq(data, ((i - 1) * size) + 1,
               IF i * size < Len(data) THEN i * size ELSE Len(data))]

\* finalize sending the whole sequence as one frame
finalize_unsegmented(seq) == [result |-> "Ok", packets |-> <<seq.data>>]

\* finalize, TCP segmentation: the packets of a sequence under a context, as
\* [result, packets], a packet being [data, ok]
segment_packets(seq, tcp_context) ==
    LET header_length == tcp_context.hdrlen
        segments == chunks(SubSeq(seq.data, header_length + 1, Len(seq.data)),
                           tcp_context.mss)
    IN IF ~tcp_context.tucmd_tse
       THEN [result |-> "Ok", packets |-> <<[data |-> seq.data, ok |-> TRUE]>>]
       ELSE IF header_length > Len(seq.data) THEN [result |-> "panic", packets |-> <<>>]
       ELSE IF Len(seq.data) - header_length # tcp_context.paylen
       THEN [result |-> "Err", packets |-> <<>>]
       ELSE IF tcp_context.mss = 0 THEN [result |-> "panic", packets |-> <<>>]
       ELSE [result |-> "Ok",
             packets |->
                 [i \in 1 .. Len(segments) |->
                     update_prototype_headers(
                         [data |-> SubSeq(seq.data, 1, header_length) \o segments[i],
                          ok |-> TRUE],
                         tcp_context, i - 1, i = Len(segments),
                         seq.insert_tcp_checksum)]]

\* finalize, fill checksums: the TCP/UDP checksum of a packet, if asked for
fill_tcp_checksum(p, seq, tcp_context) ==
    IF seq.insert_tcp_checksum
    THEN write_internet_checksum(p, tcp_context.tu_cso, tcp_context.tu_css,
                                 tcp_context.tu_cse)
    ELSE p

\* finalize, fill checksums: the IP checksum of a packet, if asked for, then
\* the TCP/UDP one
fill_checksums(p, seq, tcp_context) ==
    fill_tcp_checksum(IF seq.insert_ip_checksum
                      THEN write_internet_checksum(p, tcp_context.ip_cso,
                                                   tcp_context.ip_css,
                                                   tcp_context.ip_cse)
                      ELSE p,
                      seq, tcp_context)

\* The packets as finalize returns them, or the panic one of them met
finalized(packets) ==
    IF \E i \in DOMAIN packets : ~packets[i].ok
    THEN [result |-> "panic", packets |-> <<>>]
    ELSE [result |-> "Ok", packets |-> [i \in DOMAIN packets |-> packets[i].data]]

\* finalize of a sequence under a context, segmented being its packets
finalize_packets(seq, segmented) ==
    IF segmented.result # "Ok" THEN segmented
    ELSE finalized([i \in DOMAIN segmented.packets |->
                       fill_checksums(segmented.packets[i], seq,
                                      seq.tcp_context.desc)])

\* finalize: the frames of a finished sequence, as [result, packets]; result
\* is "Ok", "Err" (payload length mismatch) or "panic" (an index out of range,
\* a segment size of zero)
finalize(seq) ==
    IF ~seq.tcp_context.some THEN [result |-> "Ok", packets |-> <<seq.data>>]
    ELSE finalize_packets(seq, segment_packets(seq, seq.tcp_context.desc))

\* host.send for every packet in order; a failed send ends the process
RECURSIVE send_all(_, _, _)
send_all(s, packets, send_ok) ==
    IF packets = <<>> THEN s
    ELSE LET s1 == Call(s, [op |-> "send", data |-> Head(packets), ok |-> send_ok])
         IN IF ~send_ok THEN Panic(s1)
            ELSE send_all(s1, Tail(packets), send_ok)

\* process_tx_ring, a sequence that is done: finalize, then send the packets
tx_send_packets(s, sent, send_ok) ==
    IF sent.result # "Ok" THEN Panic(s)
    ELSE send_all(s, sent.packets, send_ok)

tx_send(s, seq, send_ok) ==
    IF ~seq.done THEN s
    ELSE tx_send_packets(s, finalize(seq), send_ok)

\* tx_write_back advancing past a descriptor that reports status without
\* writing it back
tx_write_back_skipped(s, desc) ==
    [dev |-> [s EXCEPT !.tx_ring = advance_head(@)], result |-> "Ok"]

\* process_tx_ring, an accepted descriptor: written back as done if it
\* reports status, and head advanced
tx_write_back(s, desc) ==
    IF report_status(desc)
    THEN write_and_advance_head(s, "tx_ring", [desc EXCEPT !.status_dd = TRUE])
    ELSE [dev |-> [s EXCEPT !.tx_ring = advance_head(@)], result |-> "Ok"]

\* process_tx_ring, the end of a turn: the sequence reset when done, TDH
\* updated
tx_turn_end(t, s, seq, desc) ==
    IF s.status # "running" THEN [t EXCEPT !.dev = s]
    ELSE [dev |-> [s EXCEPT !.regs.td_h = s.tx_ring.head % 65536],
          seq |-> IF seq.done THEN TransmitDescriptorSequence_default ELSE seq,
          report_status |-> t.report_status \/ report_status(desc)]

tx_accepted(t, seq, written, desc, send_ok) ==
    tx_turn_end(t,
                IF written.result # "Ok" THEN Panic(written.dev)
                ELSE tx_send(written.dev, seq, send_ok),
                seq, desc)

\* process_tx_ring, what add_descriptor returned (a): a refused descriptor
\* is skipped
tx_added(t, a, desc, send_ok) ==
    IF a.result = "panic" THEN [t EXCEPT !.dev = Panic(a.dev)]
    ELSE IF a.result = "Err"
    THEN [t EXCEPT !.dev = [a.dev EXCEPT !.tx_ring = advance_head(@)],
                   !.seq = a.seq]
    ELSE tx_accepted(t, a.seq, tx_write_back(a.dev, desc), desc, send_ok)

tx_read(t, head, desc, send_ok) ==
    IF head.result # "Ok" THEN [t EXCEPT !.dev = Panic(head.dev)]
    ELSE tx_added(t, add_descriptor([dev |-> head.dev, seq |-> t.seq,
                                     result |-> "Ok"], desc),
                  desc, send_ok)

\* One turn of the drain loop on a non-empty ring, desc being what the DMA read
\* of the head slot returns.  t = [dev, seq, report_status].
tx_step(t, desc, send_ok) == tx_read(t, read_head(t.dev, "tx_ring"), desc, send_ok)

\* The drain loop.  descs are the descriptors the successive reads of the head
\* slot return; a loop that outlives them never ends.
RECURSIVE tx_loop(_, _, _)
tx_loop(t, descs, send_ok) ==
    IF t.dev.status # "running" THEN t
    ELSE IF is_empty(t.dev.tx_ring) THEN t
    ELSE IF descs = <<>> THEN [t EXCEPT !.dev.status = "hung"]
    ELSE tx_loop(tx_step(t, Head(descs), send_ok), Tail(descs), send_ok)

\* tx_report taking every drain for one that reported status
tx_report_always_txdw(t, d) ==
    IF t.dev.status # "running" THEN t.dev
    ELSE report_txdw_and_txqe(t.dev, d)

tx_report(t, d) ==
    IF t.dev.status # "running" THEN t.dev
    ELSE IF t.report_status THEN report_txdw_and_txqe(t.dev, d)
    ELSE report_txqe(t.dev, d)

process_tx_ring(s, env) ==
    IF ~s.tx_ring.some THEN s
    ELSE LET s1 == [s EXCEPT !.tx_ring.tail = s.regs.td_t]
             t == tx_loop([dev |-> s1, seq |-> TransmitDescriptorSequence_default,
                           report_status |-> FALSE], env.descs, env.send_ok)
         IN tx_report(t, env.d)

\* How many reads of the head slot a drain makes once tail is copied: all the
\* hardware owned descriptors, or without end when head cannot meet tail
tx_reads(ring, tail) ==
    IF ring.head = tail THEN 0
    ELSE IF ring.head < ring.length /\ tail < ring.length
    THEN (tail - ring.head) % ring.length
    ELSE MaxDrain

----------------------------------------------------------------------------
(* EEPROM behind the Microwire wires of EECD (eeprom.rs) *)

MICROWIRE_OPCODE_READ == 6
OPCODE_BITS == 3
ADDRESS_BITS == 6
DESIRED_CHECKSUM == 47802

\* data: [u16; 64]
EepromLength == 64

EepromWordIndices == 0 .. (EepromLength - 1)

Reverse(q) == [i \in 1 .. Len(q) |-> q[Len(q) + 1 - i]]

\* The image the words are packed from: the MAC, kept in reverse
Eeprom_default == [ethernet_address |-> <<0, 0, 0, 0, 0, 0>>]

ethernet_address(e) == Reverse(e.ethernet_address)

set_ethernet_address(e, mac) == [e EXCEPT !.ethernet_address = Reverse(mac)]

\* The 128 packed bytes: lsb0 numbering puts bytes 0:5 at the end
Eeprom_pack(e) ==
    [i \in 1 .. (2 * EepromLength) |->
        IF i > (2 * EepromLength) - 6
        THEN e.ethernet_address[i - ((2 * EepromLength) - 6)]
        ELSE 0]

RECURSIVE WrappingSum(_, _)
\* The 16 bit wrapping sum of word(0) .. word(n - 1)
WrappingSum(word, n) ==
    IF n = 0 THEN 0
    ELSE (WrappingSum(word, n - 1) + word[n - 1]) % 65536

pack_initial_eeprom_plain_checksum(ee) ==
    LET pack == Reverse(Eeprom_pack(ee.initial_eeprom))
        word == [i \in EepromWordIndices |-> pack[(2 * i) + 1] + (256 * pack[(2 * i) + 2])]
    IN [ee EXCEPT !.data =
            [i \in EepromWordIndices |->
                IF i = EepromLength - 1 THEN DESIRED_CHECKSUM ELSE word[i]]]

pack_initial_eeprom(ee) ==
    LET pack == Reverse(Eeprom_pack(ee.initial_eeprom))
        word == [i \in EepromWordIndices |-> pack[(2 * i) + 1] + (256 * pack[(2 * i) + 2])]
        sum == WrappingSum(word, EepromLength - 1)
    IN [ee EXCEPT !.data =
            [i \in EepromWordIndices |->
                IF i = EepromLength - 1 THEN (DESIRED_CHECKSUM - sum) % 65536
                ELSE word[i]]]

Stage(kind, v) == [kind |-> kind, v |-> v]

EepromInterface_default ==
    [initial_eeprom |-> Eeprom_default,
     data |-> [i \in EepromWordIndices |-> 0],
     previous_chip_select |-> FALSE,
     previous_clock |-> FALSE,
     stage |-> Stage("WaitingOpcode", 0),
     bit_index |-> 0]

\* process_wires: the result is [eeprom, data_output, ok]
process_wires(ee, wires) ==
    LET Ok(e, out) == [eeprom |-> e, data_output |-> out, ok |-> TRUE]
        Err(e) == [eeprom |-> e, data_output |-> wires.data_output, ok |-> FALSE]
    IN IF ~wires.chip_select
       THEN Ok([ee EXCEPT !.previous_chip_select = FALSE], wires.data_output)
       ELSE
       LET e1 == IF ~ee.previous_chip_select
                 THEN [ee EXCEPT !.stage = Stage("WaitingOpcode", 0), !.bit_index = 0,
                                 !.previous_chip_select = TRUE]
                 ELSE ee
       IN IF wires.clock_input = e1.previous_clock
          THEN Ok(e1, wires.data_output)
          ELSE
          LET e2 == [e1 EXCEPT !.previous_clock = wires.clock_input]
              di == IF wires.data_input THEN 1 ELSE 0
          IN IF wires.clock_input
             THEN \* low to high: shift data in, or drive data out
                  CASE e2.stage.kind = "WaitingOpcode" ->
                         Ok([e2 EXCEPT !.stage.v = ((2 * @) % 256) + di], wires.data_output)
                    [] e2.stage.kind = "WaitingAddress" ->
                         Ok([e2 EXCEPT !.stage.v = ((2 * @) % 65536) + di], wires.data_output)
                    [] e2.stage.kind = "Reading" ->
                         LET total_bit_offset == ((e2.stage.v * 16) + e2.bit_index) % 65536
                             word_index == (total_bit_offset \div 16) % EepromLength
                             bit_index == total_bit_offset % 16
                             word == e2.data[word_index]
                         IN Ok(e2, BitSet(word, 15 - bit_index))
             ELSE \* high to low: the index advances, the stage may complete
                  LET e3 == [e2 EXCEPT !.bit_index = @ + 1]
                  IN CASE e3.stage.kind = "WaitingOpcode" /\ e3.bit_index = OPCODE_BITS ->
                            IF e3.stage.v = MICROWIRE_OPCODE_READ
                            THEN Ok([e3 EXCEPT !.stage = Stage("WaitingAddress", 0),
                                               !.bit_index = 0], wires.data_output)
                            ELSE Err(e3)
                       [] e3.stage.kind = "WaitingAddress" /\ e3.bit_index = ADDRESS_BITS ->
                            Ok([e3 EXCEPT !.stage = Stage("Reading", e3.stage.v),
                                          !.bit_index = 0], wires.data_output)
                       [] OTHER -> Ok(e3, wires.data_output)

\* The wires as the guest drives them (EECD.CS, SK, DI from one value of the
\* register to the next): with CS low nothing is selected; a CS rising edge
\* starts a transaction; every SK rising edge under CS clocks a bit, the
\* first OPCODE_BITS + ADDRESS_BITS of them carrying DI, the later ones
\* counted in k.  A CS rising edge that comes with an SK rising edge is not
\* taken for a transaction.
Deselected == [selected |-> FALSE, bits |-> <<>>, k |-> 0]

Clocked(m, was, is) ==
    IF ~is.CS THEN Deselected
    ELSE IF ~was.CS
    THEN [Deselected EXCEPT !.selected = ~(is.SK /\ ~was.SK)]
    ELSE IF ~(is.SK /\ ~was.SK) \/ ~m.selected THEN m
    ELSE IF Len(m.bits) < OPCODE_BITS + ADDRESS_BITS
    THEN [m EXCEPT !.bits = Append(@, IF is.DI THEN 1 ELSE 0)]
    ELSE [m EXCEPT !.k = @ + 1]

\* The wires are the bits of EECD; an unknown opcode ends the process
eecd_write(s) ==
    LET wires == [clock_input |-> s.regs.eecd.SK, chip_select |-> s.regs.eecd.CS,
                  data_input |-> s.regs.eecd.DI, data_output |-> FALSE]
        r == process_wires(s.eeprom, wires)
        s1 == [s EXCEPT !.eeprom = r.eeprom]
    IN IF ~r.ok THEN Panic(s1)
       ELSE [s1 EXCEPT !.regs.eecd.DO = r.data_output]

----------------------------------------------------------------------------
(* PHY (e1000/phy.rs) *)

MDI_READ == 2
MDI_WRITE == 1

\* The identifiers are the ones the Linux driver expects
Phy_default ==
    [status |-> [link_status |-> FALSE],
     phy_identifier |-> [identifier |-> 321],
     phy_extended_identifier |-> [revision |-> 0, model |-> 2, identifier |-> 3]]

\* The 16 bit layouts of the PHY registers
PhyStatus_pack(r) == IF r.link_status THEN 4 ELSE 0

PhyStatus_unpack(v) == [link_status |-> BitSet(v, 2)]

PhyIdentifier_pack(r) == r.identifier

PhyIdentifier_unpack(v) == [identifier |-> v % 65536]

PhyExtendedIdentifier_pack(r) == r.revision + (r.model * 16) + (r.identifier * 1024)

PhyExtendedIdentifier_unpack(v) ==
    [revision |-> v % 16, model |-> (v \div 16) % 64, identifier |-> (v \div 1024) % 64]

\* PhyRegister::access on the register at offset: a write unpacks the data
\* into the register, a read packs the register into the data.  An offset
\* that matches no register is only logged.  The result is [phy, data].
phy_access(self, offset, data, write) ==
    CASE offset = 1 ->
           IF write THEN [phy |-> [self EXCEPT !.status = PhyStatus_unpack(data)],
                          data |-> data]
           ELSE [phy |-> self, data |-> PhyStatus_pack(self.status)]
      [] offset = 2 ->
           IF write THEN [phy |-> [self EXCEPT !.phy_identifier = PhyIdentifier_unpack(data)],
                          data |-> data]
           ELSE [phy |-> self, data |-> PhyIdentifier_pack(self.phy_identifier)]
      [] offset = 3 ->
           IF write THEN [phy |-> [self EXCEPT !.phy_extended_identifier =
                                                  PhyExtendedIdentifier_unpack(data)],
                          data |-> data]
           ELSE [phy |-> self,
                 data |-> PhyExtendedIdentifier_pack(self.phy_extended_identifier)]
      [] OTHER -> [phy |-> self, data |-> data]

\* mdic_write reporting MDAC whether or not the interrupt was asked for
mdic_write_reporting(s, d) ==
    LET m == s.regs.mdic
        write == m.opcode = MDI_WRITE
        a == phy_access(s.phy, m.register_address, m.data, write)
    IN IF m.opcode \notin {MDI_READ, MDI_WRITE} THEN s
       ELSE report_mdac([s EXCEPT !.phy = a.phy,
                                  !.regs.mdic.data = IF write THEN @ ELSE a.data,
                                  !.regs.mdic.ready = TRUE], d)

\* mdic_write: the transaction the guest wrote to MDIC is carried out on the
\* PHY; an opcode other than read and write is logged and nothing is done
mdic_write(s, d) ==
    LET m == s.regs.mdic
        write == m.opcode = MDI_WRITE
        a == phy_access(s.phy, m.register_address, m.data, write)
        s1 == [s EXCEPT !.phy = a.phy,
                        !.regs.mdic.data = IF write THEN @ ELSE a.data,
                        !.regs.mdic.ready = TRUE]
    IN IF m.opcode \notin {MDI_READ, MDI_WRITE} THEN s
       ELSE IF m.interrupt_enable THEN report_mdac(s1, d)
       ELSE s1

----------------------------------------------------------------------------
(* Register side effects (e1000.rs) and the BAR0 dispatch                  *)
(* (e1000/registers.rs)                                                    *)

reset_e1000_keeps_rings(s) ==
    [s EXCEPT !.regs = set_mac(Registers_default,
                               ethernet_address(s.eeprom.initial_eeprom)),
              !.phy = Phy_default]

\* Registers, PHY and rings go back to their defaults; the registers then
\* take the MAC of the EEPROM image
reset_e1000(s) ==
    [s EXCEPT !.regs = set_mac(Registers_default,
                               ethernet_address(s.eeprom.initial_eeprom)),
              !.phy = Phy_default,
              !.rx_ring = None, !.tx_ring = None]

\* Reset also takes the receiver offline and ends interrupt mitigation
reset_lifecycle(s) ==
    LET s1 == IF s.timer.some THEN delete_timer(s) ELSE s
    IN [s1 EXCEPT !.receive_state = "Offline", !.interrupt_mitigation = None]

ctrl_write_status_only(s, d) ==
    IF s.regs.ctrl.RST THEN reset_lifecycle(reset_e1000(s))
    ELSE IF s.regs.ctrl.SLU
    THEN report_lsc([s EXCEPT !.regs.status.LU = TRUE], d)
    ELSE s

ctrl_write(s, d) ==
    IF s.regs.ctrl.RST THEN reset_lifecycle(reset_e1000(s))
    ELSE IF s.regs.ctrl.SLU
    THEN report_lsc([s EXCEPT !.regs.status.LU = TRUE,
                              !.phy.status.link_status = TRUE], d)
    ELSE s

\* A receiver whose ring was just set up is online, unless it must throttle
rx_ring_online(s) == update_rx_throttling([s EXCEPT !.receive_state = "Online"])

rctl_write(s) ==
    IF s.regs.rctl.EN /\ ~s.rx_ring.some THEN rx_ring_online(setup_rx_ring(s))
    ELSE s

tctl_write(s) ==
    IF s.regs.tctl.EN /\ ~s.tx_ring.some THEN setup_tx_ring(s)
    ELSE s

\* Software is done with the received packets: the ring takes the new tail
rdt_write(s) ==
    IF ~s.rx_ring.some THEN s
    ELSE [s EXCEPT !.rx_ring.tail = s.regs.rd_t]

\* After the new tail, throttling is recomputed
rdt_write_throttling(s) == update_rx_throttling(rdt_write(s))

tdt_write(s, env) == process_tx_ring(s, env)

Status_pack(st) == 1 + (IF st.LU THEN 2 ELSE 0) + 64 + 128

Control_pack(c) == (IF c.SLU THEN 2 ^ 6 ELSE 0) + (IF c.RST THEN 2 ^ 26 ELSE 0)

ReceiveControl_pack(c) ==
    (IF c.EN THEN 2 ELSE 0) + (c.BSIZE * 65536)
    + (IF c.BSEX THEN 2 ^ 25 ELSE 0) + (IF c.SECRC THEN 2 ^ 26 ELSE 0)

TransmitControl_pack(c) == IF c.EN THEN 2 ELSE 0

\* EE_GNT and EE_PRES read as one
EepromControlAndData_pack(c) ==
    (IF c.SK THEN 1 ELSE 0) + (IF c.CS THEN 2 ELSE 0) + (IF c.DI THEN 4 ELSE 0)
    + (IF c.DO THEN 8 ELSE 0) + (IF c.EE_REQ THEN 64 ELSE 0) + 128 + 256

\* A register access: reg is the field, unpack/pack its layout.  A write stores
\* the unpacked word, a read returns the packed field.
access(s, reg, unpacked, packed, w, write) ==
    IF write THEN [dev |-> [s EXCEPT !.regs[reg] = unpacked], data |-> w]
    ELSE [dev |-> s, data |-> packed]

\* access_register: the result is [dev, data, matched]
access_register(s, offset, w, write, env) ==
    LET r == s.regs
        Plain(reg, unpacked, packed) ==
            access(s, reg, unpacked, packed, w, write) @@ [matched |-> TRUE]
        Then(a, dev) == [a EXCEPT !.dev = dev]
    IN CASE offset = CTRL ->
              LET a == Plain("ctrl", Control_unpack(w), Control_pack(r.ctrl))
              IN IF write THEN Then(a, ctrl_write(a.dev, env.d)) ELSE a
         [] offset = STATUS ->
              Plain("status", [LU |-> BitSet(w, 1)], Status_pack(r.status))
         [] offset = EECD ->
              LET a == Plain("eecd", EepromControlAndData_unpack(w),
                             EepromControlAndData_pack(r.eecd))
              IN IF write THEN Then(a, eecd_write(a.dev)) ELSE a
         [] offset = ITR ->
              Plain("interrupt_throttling", InterruptDelay_unpack(w), r.interrupt_throttling)
         [] offset = ICR /\ ~write ->
              LET a == Plain("interrupt_cause", {}, InterruptCauses_pack(r.interrupt_cause))
              IN Then(a, [a.dev EXCEPT !.regs.interrupt_cause = {}])
         [] offset = ICS /\ ~write ->
              Plain("interrupt_cause", {}, InterruptCauses_pack(r.interrupt_cause))
         [] offset \in {ICR, ICS} /\ write ->
              LET a == Plain("interrupt_temp", InterruptCauses_unpack(w), 0)
                  clear == offset = ICR
                  s1 == [a.dev EXCEPT !.regs.interrupt_cause =
                            InterruptCauses_modify(@, a.dev.regs.interrupt_temp, clear)]
              IN Then(a, interrupt(s1, env.d))
         [] offset \in {IMS, IMC} /\ ~write ->
              Plain("interrupt_mask", {}, InterruptCauses_pack(r.interrupt_mask))
         [] offset \in {IMS, IMC} /\ write ->
              LET a == Plain("interrupt_temp", InterruptCauses_unpack(w), 0)
                  clear == offset = IMC
                  s1 == [a.dev EXCEPT !.regs.interrupt_mask =
                            InterruptCauses_modify(@, a.dev.regs.interrupt_temp, clear)]
              IN Then(a, interrupt(s1, env.d))
         [] offset = RCTL ->
              LET a == Plain("rctl", ReceiveControl_unpack(w), ReceiveControl_pack(r.rctl))
              IN IF write THEN Then(a, rctl_write(a.dev)) ELSE a
         [] offset = TCTL ->
              LET a == Plain("tctl", TransmitControl_unpack(w), TransmitControl_pack(r.tctl))
              IN IF write THEN Then(a, tctl_write(a.dev)) ELSE a
         [] offset = RDBAL ->
              Plain("rd_ba_l", DescriptorBaseAddressLow_unpack(w), r.rd_ba_l * 16)
         [] offset = RDBAH ->
              Plain("rd_ba_h", DescriptorBaseAddressHigh_unpack(w), r.rd_ba_h)
         [] offset = RDLEN ->
              Plain("rd_len", DescriptorLength_unpack(w), r.rd_len * 128)
         [] offset = RDH ->
              Plain("rd_h", DescriptorHead_unpack(w), r.rd_h)
         [] offset = RDT ->
              LET a == Plain("rd_t", DescriptorTail_unpack(w), r.rd_t)
              IN IF write THEN Then(a, rdt_write_throttling(a.dev)) ELSE a
         [] offset = TDBAL ->
              Plain("td_ba_l", DescriptorBaseAddressLow_unpack(w), r.td_ba_l * 16)
         [] offset = TDBAH ->
              Plain("td_ba_h", DescriptorBaseAddressHigh_unpack(w), r.td_ba_h)
         [] offset = TDLEN ->
              Plain("td_len", DescriptorLength_unpack(w), r.td_len * 128)
         [] offset = TDH ->
              Plain("td_h", DescriptorHead_unpack(w), r.td_h)
         [] offset = TDT ->
              LET a == Plain("td_t", DescriptorTail_unpack(w), r.td_t)
              IN IF write THEN Then(a, tdt_write(a.dev, env)) ELSE a
         [] offset = MDIC ->
              LET a == Plain("mdic", MdiControl_unpack(w), MdiControl_pack(r.mdic))
              IN IF write THEN Then(a, mdic_write(a.dev, env.d)) ELSE a
         [] offset = RAL0 ->
              Plain("ral0", ReceiveAddressLow_unpack(w), r.ral0)
         [] offset = RAH0 ->
              Plain("rah0", ReceiveAddressHigh_unpack(w), r.rah0)
         [] OTHER -> [dev |-> s, data |-> w, matched |-> FALSE]

\* The outcome of a region access that fails before it touches the device:
\* the error of an ensure! on the shape of the access ("BadAccessShape"), or
\* the error of an unsupported BAR1 offset ("UnsupportedIoOffset")
Failed(s, w, error) == [dev |-> s, data |-> w, result |-> error]

region_access_bar0_unaligned(s, offset, len, w, write, env) ==
    IF len # 4 THEN Failed(s, w, "BadAccessShape")
    ELSE LET a == access_register(s, offset, w, write, env)
         IN [dev |-> a.dev, data |-> a.data, result |-> "Ok"]

\* region_access_bar0 with len bytes of data, the word w in the caller's
\* buffer: the result is [dev, data, result].  An offset that matches no
\* register is only logged, and the buffer stays as the caller passed it.
region_access_bar0(s, offset, len, w, write, env) ==
    IF len # 4 \/ offset % 4 # 0 THEN Failed(s, w, "BadAccessShape")
    ELSE LET a == access_register(s, offset, w, write, env)
         IN [dev |-> a.dev, data |-> a.data, result |-> "Ok"]

region_access_bar1_direct(s, offset, len, w, write, env) ==
    IF len # 4 THEN Failed(s, w, "BadAccessShape")
    ELSE CASE offset = 0 ->
                IF write
                THEN [dev |-> [s EXCEPT !.io_addr = w], data |-> w, result |-> "Ok"]
                ELSE [dev |-> s, data |-> s.io_addr, result |-> "Ok"]
           [] offset = 4 -> region_access_bar0(s, offset, len, w, write, env)
           [] OTHER -> Failed(s, w, "UnsupportedIoOffset")

\* BAR1 proxies BAR0: IOADDR at offset 0 posts the BAR0 offset that IODATA at
\* offset 4 accesses
region_access_bar1(s, offset, len, w, write, env) ==
    IF len # 4 THEN Failed(s, w, "BadAccessShape")
    ELSE CASE offset = 0 ->
                IF write
                THEN [dev |-> [s EXCEPT !.io_addr = w], data |-> w, result |-> "Ok"]
                ELSE [dev |-> s, data |-> s.io_addr, result |-> "Ok"]
           [] offset = 4 -> region_access_bar0(s, s.io_addr, len, w, write, env)
           [] OTHER -> Failed(s, w, "UnsupportedIoOffset")

----------------------------------------------------------------------------
(* Entry points as actions *)

Macs == {<<2, 3, 4, 5, 6, 7>>, <<82, 84, 0, 18, 52, 86>>}

\* The EEPROM of a constructed device: the image takes the MAC and is packed
new_eeprom(mac) ==
    pack_initial_eeprom(
        [EepromInterface_default EXCEPT
            !.initial_eeprom = set_ethernet_address(@, mac)])

\* The device as constructed with a MAC, r being the register bank
InitDevice(r, mac) ==
    /\ regs = r
    /\ rx_ring = None
    /\ tx_ring = None
    /\ receive_state = "Offline"
    /\ enable_interrupt_mitigation \in BOOLEAN
    /\ interrupt_mitigation = None
    /\ now = 0
    /\ timer = None
    /\ eeprom = new_eeprom(mac)
    /\ phy = Phy_default
    /\ io_addr = 0
    /\ microwire = Deselected
    /\ status = "running"
    /\ calls = <<>>
    /\ last = [op |-> "new"]

InitWith(r) == InitDevice(r, <<2, 3, 4, 5, 6, 7>>)

Init == InitWith(Registers_default)

\* The device after an entry point returned (or ended the process)
Set(s) ==
    /\ regs' = s.regs
    /\ rx_ring' = s.rx_ring
    /\ tx_ring' = s.tx_ring
    /\ receive_state' = s.receive_state
    /\ interrupt_mitigation' = s.interrupt_mitigation
    /\ now' = s.now
    /\ timer' = s.timer
    /\ eeprom' = s.eeprom
    /\ phy' = s.phy
    /\ io_addr' = s.io_addr
    /\ microwire' = Clocked(microwire, regs.eecd, s.regs.eecd)
    /\ status' = s.status
    /\ calls' = s.calls
    /\ UNCHANGED enable_interrupt_mitigation

NoEnv(d) == [d |-> d, descs |-> <<>>, send_ok |-> TRUE]

\* The record of a region access: its inputs (w is the word in the caller's
\* buffer), the buffer and result it returned
Accessed(bar, offset, len, w, write, env, a) ==
    [op |-> IF write THEN "write" ELSE "read", bar |-> bar, offset |-> offset,
     len |-> len, buffer |-> w, data |-> a.data, result |-> a.result,
     descs |-> env.descs, was |-> receive_state]

\* A guest access of len bytes at a BAR0 offset
RegionAccessBar0(offset, len, w, write, env) ==
    /\ status = "running"
    /\ now + env.d <= MaxTime
    /\ LET a == region_access_bar0(Dev, offset, len, w, write, env)
       IN /\ Set(a.dev)
          /\ last' = Accessed(0, offset, len, w, write, env, a)

\* A guest access of len bytes at a BAR1 offset
RegionAccessBar1(offset, len, w, write, env) ==
    /\ status = "running"
    /\ now + env.d <= MaxTime
    /\ LET a == region_access_bar1(Dev, offset, len, w, write, env)
       IN /\ Set(a.dev)
          /\ last' = Accessed(1, offset, len, w, write, env, a)

\* A guest write of the word w at a BAR0 offset
Bar0Write(offset, w, env) == RegionAccessBar0(offset, 4, w, TRUE, env)

\* A guest read at a BAR0 offset
Bar0Read(offset) == RegionAccessBar0(offset, 4, 0, FALSE, NoEnv(0))

\* The host resets the device
Reset ==
    /\ status = "running"
    /\ Set(reset_lifecycle(reset_e1000(Dev)))
    /\ last' = [op |-> "reset", was |-> receive_state]

\* The host's timer source calls timer_elapsed: at any time, as a stale or
\* spurious event may
TimerElapsed(d) ==
    /\ status = "running"
    /\ now + d <= MaxTime
    /\ Set(timer_elapsed(Dev, d))
    /\ last' = [op |-> "timer_elapsed", armed |-> FALSE]

\* The host loop of nic-emu-cli: the armed timer is due, timer_elapsed is
\* called and the timer marked done
TimerFires(d) ==
    /\ status = "running"
    /\ now + d <= MaxTime
    /\ timer.some /\ timer.at <= now
    /\ Set([timer_elapsed(Dev, d) EXCEPT !.timer = None])
    /\ last' = [op |-> "timer_elapsed", armed |-> TRUE]

\* The host delivers a frame when the receiver is ready; descriptor is the
\* content of the head slot in guest memory
Receive(received, descriptor, d) ==
    /\ status = "running"
    /\ now + d <= MaxTime
    /\ receive_state = "Online"
    /\ LET r == receive(Dev, received, descriptor, d)
       IN /\ Set(r.dev)
          /\ last' = [op |-> "receive", received |-> received,
                      descriptor |-> descriptor, result |-> r.result]

Tick ==
    /\ status = "running"
    /\ now < MaxTime
    /\ now' = now + 1
    /\ calls' = <<>>
    /\ last' = [op |-> "tick"]
    /\ UNCHANGED <<regs, rx_ring, tx_ring, receive_state, enable_interrupt_mitigation,
                   interrupt_mitigation, timer, eeprom, phy, io_addr, microwire,
                   status>>

----------------------------------------------------------------------------
(* The interrupt engine under guest writes of the interrupt registers, link *)
(* up, received frames, the timer and the clock                             *)

IrqWords == {4, 128}

ItrWords == {0, 2}

\* Time that may pass inside an entry point between two reads of the clock
Skews == {0, 1}

IrqWrite == \E offset \in {ICR, ICS, IMS, IMC}, w \in IrqWords, d \in Skews :
                Bar0Write(offset, w, NoEnv(d))

IrqRead == Bar0Read(ICR)

ItrWrite == \E w \in ItrWords : Bar0Write(ITR, w, NoEnv(0))

IrqTimerElapsed == \E d \in Skews : TimerElapsed(d)

IrqTimerFires == \E d \in Skews : TimerFires(d)

\* The guest has programmed a receive ring of 8 descriptors, 3 of them given
\* to the hardware (RDLEN and RDT written while the receiver is off), and
\* enables the receiver at some point
InitIrq == InitWith([Registers_default EXCEPT !.rd_len = 1, !.rd_t = 3])

IrqRxSetup == Bar0Write(RCTL, 2, NoEnv(0))

IrqFrame == [len |-> 60, fill |-> 170]

IrqRxDescriptor == [buffer |-> 4096, length |-> 0, status_dd |-> FALSE, status_eop |-> FALSE]

IrqReceive == \E d \in Skews : Receive(IrqFrame, IrqRxDescriptor, d)

NextIrq ==
    \/ IrqWrite \/ IrqRead \/ ItrWrite \/ IrqRxSetup \/ IrqReceive
    \/ IrqTimerElapsed \/ IrqTimerFires \/ Tick

SpecIrq == InitIrq /\ [][NextIrq]_vars

----------------------------------------------------------------------------
(* Properties of the interrupt engine *)

Ops(cs, names) == {i \in DOMAIN cs : cs[i].op \in names}

Triggers(cs) == Cardinality(Ops(cs, {"trigger_interrupt"}))

Pending == regs.interrupt_cause \cap regs.interrupt_mask # {}

\* C1: no entry point issues host.trigger_interrupt at a time at which the
\* mitigation record it found has not expired (expiration > the time of the call)
C1_NoInterruptInWindow ==
    [][\A i \in Ops(calls', {"trigger_interrupt"}) :
          ~(interrupt_mitigation.some
            /\ interrupt_mitigation.expiration > calls'[i].now)]_vars

\* A frame was received inside the window with RXT0 unmasked: the candidate is
\* suppressed and the timer armed instead
C1_Witness ==
    /\ last.op = "receive" /\ last.result = "Ok"
    /\ "RXT0" \in regs.interrupt_cause \cap regs.interrupt_mask
    /\ enable_interrupt_mitigation /\ regs.interrupt_throttling # 0
    /\ interrupt_mitigation.some /\ interrupt_mitigation.expiration > now
    /\ Triggers(calls) = 0
    /\ Ops(calls, {"set_timer"}) # {}

\* C2: host.trigger_interrupt and host.set_timer are only called with
\* cause & mask non-zero, and an entry point that leaves cause & mask zero has
\* called neither
C2_OnlyCandidates ==
    /\ \A i \in Ops(calls, {"trigger_interrupt", "set_timer"}) :
          calls[i].cause \cap calls[i].mask # {}
    /\ ~Pending => Ops(calls, {"trigger_interrupt", "set_timer"}) = {}

\* An ICS write set a cause that is masked off: the interrupt was evaluated
\* and the host not called
C2_Witness ==
    /\ last.op = "write" /\ last.offset = ICS
    /\ regs.interrupt_cause # {}
    /\ ~Pending
    /\ calls = <<>>

\* timer_elapsed finds the record of a suppressed interrupt, expired, with a
\* cause still unmasked
C3_Case ==
    /\ last'.op = "timer_elapsed"
    /\ interrupt_mitigation.some
    /\ interrupt_mitigation.interrupt_after
    /\ interrupt_mitigation.expiration <= now
    /\ Pending

\* C3 as stated: timer_elapsed on the expired record of a suppressed interrupt
\* issues exactly one trigger_interrupt and installs a fresh record with
\* interrupt_after = false
C3_Original ==
    [][C3_Case =>
          /\ Triggers(calls') = 1
          /\ interrupt_mitigation'.some
          /\ ~interrupt_mitigation'.interrupt_after
          /\ interrupt_mitigation'.expiration > now]_vars

\* C3 amended: exactly one trigger_interrupt is issued; a fresh record with
\* interrupt_after = false, expiring one ITR interval later, is installed when
\* ITR is non-zero at that time, and no record is left when ITR is zero
C3_SuppressedNotLost ==
    [][C3_Case =>
          /\ Triggers(calls') = 1
          /\ interrupt_mitigation' =
                IF regs.interrupt_throttling # 0
                THEN [some |-> TRUE,
                      expiration |-> now' + regs.interrupt_throttling,
                      interrupt_after |-> FALSE]
                ELSE None]_vars

\* The timer fired after a suppression: one interrupt, and a new window
C3_Witness ==
    /\ last.op = "timer_elapsed" /\ last.armed
    /\ Triggers(calls) = 1
    /\ interrupt_mitigation.some
    /\ ~interrupt_mitigation.interrupt_after
    /\ interrupt_mitigation.expiration > now

\* C4: timer_elapsed without a record, with interrupt_after = false or before
\* the expiration calls the host not at all and leaves the mitigation record,
\* the causes and the mask as they were
C4_SpuriousTimer ==
    [][(/\ last'.op = "timer_elapsed"
        /\ \/ ~interrupt_mitigation.some
           \/ ~interrupt_mitigation.interrupt_after
           \/ interrupt_mitigation.expiration > now)
       => /\ calls' = <<>>
          /\ interrupt_mitigation' = interrupt_mitigation
          /\ regs'.interrupt_cause = regs.interrupt_cause
          /\ regs'.interrupt_mask = regs.interrupt_mask]_vars

\* timer_elapsed was called on an expired record with no timer scheduled and
\* an unmasked cause: nothing happened
C4_Witness ==
    /\ last.op = "timer_elapsed"
    /\ calls = <<>>
    /\ Pending
    /\ interrupt_mitigation.some
    /\ ~interrupt_mitigation.interrupt_after
    /\ interrupt_mitigation.expiration <= now

\* The entry point taken evaluates interrupt() with a cause unmasked: a write
\* of a cause or mask register, or a frame received
C26_Candidate ==
    /\ \/ /\ last'.op = "write" /\ last'.result = "Ok"
          /\ last'.offset \in {ICR, ICS, IMS, IMC}
       \/ last'.op = "receive" /\ last'.result = "Ok"
    /\ Pending'

\* C26: while a mitigation window is open (a record exists and has not
\* expired) no entry point calls host.trigger_interrupt or host.delete_timer;
\* the first suppressed candidate of the window calls host.set_timer once,
\* for expiration - now, and sets interrupt_after; once interrupt_after is
\* set no entry point calls host.set_timer in that window, and the record
\* stays as it is
C26_OneTimerPerWindow ==
    [][(/\ interrupt_mitigation.some
        /\ interrupt_mitigation.expiration > now
        /\ last'.op # "tick")
       => LET timers == Ops(calls', {"set_timer"})
          IN /\ Ops(calls', {"trigger_interrupt", "delete_timer"}) = {}
             /\ IF interrupt_mitigation.interrupt_after \/ ~C26_Candidate
                THEN /\ timers = {}
                     /\ interrupt_mitigation' = interrupt_mitigation
                ELSE /\ Cardinality(timers) = 1
                     /\ \A i \in timers :
                           calls'[i].duration = interrupt_mitigation.expiration - now
                     /\ interrupt_mitigation' =
                           [interrupt_mitigation EXCEPT !.interrupt_after = TRUE]]_vars

\* A second candidate was suppressed in a window whose timer is armed: the
\* host was not called for it
C26_Witness ==
    /\ last.op = "write" /\ last.offset = ICS
    /\ Pending
    /\ interrupt_mitigation.some
    /\ interrupt_mitigation.interrupt_after
    /\ interrupt_mitigation.expiration > now
    /\ timer.some
    /\ calls = <<>>

\* C39: a write to IMC clears the written bits from the mask and calls
\* neither host.trigger_interrupt nor host.set_timer
C39_MaskClearOnly ==
    [][(last'.op = "write" /\ last'.bar = 0 /\ last'.offset = IMC
            /\ last'.result = "Ok") =>
          /\ regs'.interrupt_mask =
                regs.interrupt_mask \ InterruptCauses_unpack(last'.buffer)
          /\ Ops(calls', {"trigger_interrupt", "set_timer"}) = {}]_vars

----------------------------------------------------------------------------
(* The interrupt engine under the host loop of nic-emu-cli alone, which    *)
(* calls timer_elapsed only for the timer it armed, once that is due       *)

NextTimer ==
    \/ IrqWrite \/ IrqRead \/ ItrWrite \/ IrqRxSetup \/ IrqReceive
    \/ IrqTimerFires \/ Tick

SpecTimer == InitIrq /\ [][NextTimer]_vars

\* A record that promises an interrupt after the window
C38_Armed(mitigation) == mitigation.some /\ mitigation.interrupt_after

C38_First(cs, names) ==
    CHOOSE i \in Ops(cs, names) : \A j \in Ops(cs, names) : i <= j

\* C38: after every step the host timer is pending exactly if a record with
\* interrupt_after exists; host.set_timer is called only by a step that sets
\* interrupt_after; and when another cause discards an expired record with
\* interrupt_after, host.delete_timer is called before
\* host.trigger_interrupt
C38_TimerIffArmed ==
    [][/\ timer'.some <=> C38_Armed(interrupt_mitigation')
       /\ Ops(calls', {"set_timer"}) # {} =>
              /\ ~C38_Armed(interrupt_mitigation)
              /\ C38_Armed(interrupt_mitigation')
       /\ (/\ C38_Armed(interrupt_mitigation)
           /\ last'.op # "timer_elapsed"
           /\ Ops(calls', {"trigger_interrupt"}) # {}) =>
              /\ Ops(calls', {"delete_timer"}) # {}
              /\ C38_First(calls', {"delete_timer"})
                    < C38_First(calls', {"trigger_interrupt"})]_vars

\* A cause found the record expired with its timer still pending: the
\* timer was deleted, then the interrupt triggered
C38_Witness ==
    /\ last.op = "write" /\ last.offset = ICS
    /\ Len(calls) = 2
    /\ calls[1].op = "delete_timer" /\ calls[2].op = "trigger_interrupt"
    /\ ~timer.some
    /\ interrupt_mitigation.some /\ ~interrupt_mitigation.interrupt_after

----------------------------------------------------------------------------
(* The receive path under guest writes of the receive ring registers and    *)
(* frames from the host                                                     *)

\* RDBAL words: a ring at guest address 0x1000_0000
RxBaseWords == {268435456}

\* RDLEN words: length field 0 and 1 (8 descriptors)
RxLengthWords == {0, 128}

\* RDH words: the start of the ring, and an index no ring of 8 has
RxHeadWords == {0, 9}

\* RDT words
RxTailWords == {0, 2, 7, 9}

\* RCTL words: EN; EN with 256 byte buffers (BSIZE = 3), with and without SECRC;
\* EN cleared
RxControlWords == {2, 2 + (3 * 65536) + (2 ^ 26), 2 + (3 * 65536), 0}

\* Frames of 60 and 300 bytes, and one of 254 bytes: within 256 bytes, beyond
\* them with a frame check sequence counted in
RxFrames == {[len |-> 60, fill |-> 170], [len |-> 300, fill |-> 85],
             [len |-> 254, fill |-> 15]}

\* What the head slot may hold: a fresh descriptor, one the guest recycled
\* without clearing it, and null padding
RxDescriptors ==
    {[buffer |-> 4096, length |-> 0, status_dd |-> FALSE, status_eop |-> FALSE],
     [buffer |-> 8192, length |-> 99, status_dd |-> TRUE, status_eop |-> FALSE],
     [buffer |-> 0, length |-> 0, status_dd |-> FALSE, status_eop |-> FALSE]}

RxBaseWrite == \E w \in RxBaseWords : Bar0Write(RDBAL, w, NoEnv(0))

RxLengthWrite == \E w \in RxLengthWords : Bar0Write(RDLEN, w, NoEnv(0))

RxHeadWrite == \E w \in RxHeadWords : Bar0Write(RDH, w, NoEnv(0))

RxTailWrite == \E w \in RxTailWords : Bar0Write(RDT, w, NoEnv(0))

RxControlWrite == \E w \in RxControlWords : Bar0Write(RCTL, w, NoEnv(0))

RxHeadRead == Bar0Read(RDH)

RxReceive == \E received \in RxFrames, descriptor \in RxDescriptors :
                 Receive(received, descriptor, 0)

NextRx ==
    \/ RxBaseWrite \/ RxLengthWrite \/ RxHeadWrite \/ RxTailWrite \/ RxControlWrite
    \/ RxHeadRead \/ RxReceive

SpecRx == Init /\ [][NextRx]_vars

----------------------------------------------------------------------------
(* Properties of the rings and of the receive path *)

InRange(ring) ==
    /\ ring.head >= 0 /\ ring.head < ring.length
    /\ ring.tail >= 0 /\ ring.tail < ring.length

\* C5: in every reachable state of the running device, head and tail of each
\* existing ring are in [0, length)
C5_RingsInRange ==
    status = "running" =>
        /\ rx_ring.some => InRange(rx_ring)
        /\ tx_ring.some => InRange(tx_ring)

\* The descriptor write-backs and the buffer writes among host calls
WriteBacks(cs) == {i \in Ops(cs, {"dma_write"}) : "desc" \in DOMAIN cs[i]}

BufferWrites(cs) == {i \in Ops(cs, {"dma_write"}) : "data" \in DOMAIN cs[i]}

C8_Case == last'.op = "receive" /\ last'.result = "Ok"

\* What a successful receive wrote: one descriptor, at the old head slot, done
\* and end of packet, with the adjusted length, and the frame at offset 0 of
\* the buffer the descriptor names
C8_Written ==
    /\ Cardinality(WriteBacks(calls')) = 1
    /\ \A i \in WriteBacks(calls') :
          /\ calls'[i].slot = rx_ring.head
          /\ calls'[i].address = rx_ring.ring_address
          /\ calls'[i].desc.status_dd /\ calls'[i].desc.status_eop
          /\ calls'[i].desc.buffer = last'.descriptor.buffer
          /\ calls'[i].desc.length =
                IF regs.rctl.SECRC THEN last'.received.len
                ELSE last'.received.len + 4
    /\ Cardinality(BufferWrites(calls')) = 1
    /\ \A i \in BufferWrites(calls') :
          /\ calls'[i].address = last'.descriptor.buffer
          /\ calls'[i].offset = 0
          /\ calls'[i].data = last'.received

\* C8 as stated: after a successful receive the descriptor and the frame are
\* written as above and RDH is (the RDH register before + 1) mod ring.length
C8_Original ==
    [][C8_Case =>
          /\ C8_Written
          /\ regs'.rd_h = (regs.rd_h + 1) % rx_ring.length]_vars

\* C8 amended: after a successful receive the descriptor and the frame are
\* written as above and RDH is (the ring's head before + 1) mod ring.length,
\* which is the ring's new head
C8_Received ==
    [][C8_Case =>
          /\ C8_Written
          /\ regs'.rd_h = (rx_ring.head + 1) % rx_ring.length
          /\ rx_ring'.head = regs'.rd_h]_vars

\* A frame was received after the guest had overwritten RDH: the register
\* follows the ring's head, not its own old value
C8_Witness ==
    /\ last.op = "receive" /\ last.result = "Ok"
    /\ last.received.len = 60
    /\ regs.rctl.SECRC
    /\ rx_ring.some /\ rx_ring.head = 2 /\ regs.rd_h = 2
    /\ WriteBacks(calls) # {}
    /\ \A i \in WriteBacks(calls) : calls[i].slot = 1 /\ calls[i].desc.length = 60

C9_Case ==
    /\ last'.op = "write" /\ last'.offset = RCTL
    /\ receive_state = "Offline" /\ ~rx_ring.some
    /\ regs'.rctl.EN
    /\ status' = "running"

C10_Case ==
    /\ status = "running"
    /\ rx_ring.some
    /\ \/ last.op = "receive" /\ last.result = "Ok"
       \/ last.op = "write" /\ last.offset = RDT

C34_Ready(state, ring) ==
    state = "Online" => ring.some /\ hardware_owned_descriptors(ring) >= 2

C35_Fails(ring, rctl, received, descriptor) ==
    \/ ring.head = ring.tail
    \/ descriptor.buffer = 0
    \/ received.len > get_buffer_size(rctl)

\* C35: a receive that fails (empty ring, null buffer address, oversize frame)
\* returns an error to its caller and leaves the device as it was: nothing is
\* written to guest memory, ring head, RDH and receive_state are unchanged,
\* RXT0 is not set and no interrupt is triggered
C35_FailureIsClean ==
    [][(/\ last'.op = "receive"
        /\ rx_ring.some
        /\ C35_Fails(rx_ring, regs.rctl, last'.received, last'.descriptor)) =>
           /\ status' = "running"
           /\ last'.result \notin {"Ok", "panic"}
           /\ Ops(calls', {"dma_write", "trigger_interrupt"}) = {}
           /\ rx_ring' = rx_ring
           /\ regs' = regs
           /\ receive_state' = receive_state]_vars

\* receive finds a ring with a hardware owned head descriptor whose buffer is
\* not null
C25_Case ==
    /\ last'.op = "receive"
    /\ rx_ring.some /\ ~is_empty(rx_ring) /\ in_mapping(rx_ring, rx_ring.head)
    /\ last'.descriptor.buffer # 0

\* C25 as stated: receive takes the unimplemented path (which ends the
\* process) exactly when the frame is longer than the buffer size RCTL
\* configures, and delivers every frame that is not, whatever SECRC is
C25_FrameFits ==
    [][C25_Case =>
          IF last'.received.len > get_buffer_size(regs.rctl)
          THEN status' = "panicked"
          ELSE /\ last'.result = "Ok" /\ status' = "running"
               /\ Cardinality(WriteBacks(calls')) = 1]_vars

----------------------------------------------------------------------------
(* The transmit path under guest writes of the transmit ring registers      *)

\* TDLEN words: length field 0 and 1 (8 descriptors)
TxLengthWords == {0, 128}

\* TDH words: the start of the ring, and an index no ring of 8 has
TxHeadWords == {0, 9}

\* TDT words: up to 3 committed descriptors, and an index no ring of 8 has
TxTailWords == {1, 2, 3, 8}

LegacyDescriptor ==
    [kind |-> "Legacy", buffer |-> 4096, data |-> <<1>>, cmd_eop |-> TRUE,
     cmd_ic |-> FALSE, cmd_rs |-> FALSE, status_dd |-> FALSE]

\* What the guest may have put in a slot of the ring: a legacy frame without
\* and with RS, an RS-marked descriptor with a null buffer, one that asks for
\* a legacy checksum, and a TCP context followed by its data
TxDescriptors ==
    {LegacyDescriptor,
     [LegacyDescriptor EXCEPT !.cmd_rs = TRUE],
     [LegacyDescriptor EXCEPT !.cmd_rs = TRUE, !.buffer = 0],
     [LegacyDescriptor EXCEPT !.cmd_ic = TRUE],
     [kind |-> "TcpContext", tucmd_rs |-> FALSE, tucmd_tse |-> FALSE,
      status_dd |-> FALSE],
     [kind |-> "TcpData", buffer |-> 8192, data |-> <<2>>, dcmd_eop |-> TRUE,
      dcmd_rs |-> FALSE, popts_ixsm |-> FALSE, popts_txsm |-> FALSE,
      status_dd |-> FALSE]}

TxLengthWrite == \E w \in TxLengthWords : Bar0Write(TDLEN, w, NoEnv(0))

TxHeadWrite == \E w \in TxHeadWords : Bar0Write(TDH, w, NoEnv(0))

TxControlWrite == Bar0Write(TCTL, 2, NoEnv(0))

\* A TDT write: descs is what guest memory holds in the slots the drain reads,
\* send_ok whether the host's send succeeds
TxTailWrite ==
    \E w \in TxTailWords :
        LET n == IF tx_ring.some THEN tx_reads(tx_ring, DescriptorTail_unpack(w)) ELSE 0
        IN /\ n <= MaxDrain
           /\ \E descs \in [1..n -> TxDescriptors], send_ok \in BOOLEAN :
                 Bar0Write(TDT, w, [d |-> 0, descs |-> descs, send_ok |-> send_ok])

TxCauseRead == Bar0Read(ICR)

NextTx ==
    \/ TxLengthWrite \/ TxHeadWrite \/ TxControlWrite \/ TxTailWrite \/ TxCauseRead

SpecTx == Init /\ [][NextTx]_vars

----------------------------------------------------------------------------
(* Properties of the transmit path *)

\* C6: every TDT write on a device with a TX ring ends its drain, and leaves
\* the ring empty (head = tail)
C6_DrainEmpties ==
    (last.op = "write" /\ last.offset = TDT /\ tx_ring.some) =>
        /\ status = "running"
        /\ is_empty(tx_ring)

\* A TDT write that found a TX ring and whose drain returned
C7_Case ==
    /\ last'.op = "write" /\ last'.offset = TDT
    /\ tx_ring.some
    /\ status' = "running"

TxCauses(r) == r.interrupt_cause \cap {"TXDW", "TXQE"}

\* C7 as stated: after a drain that read no RS-marked descriptor only TXQE is
\* set among TXDW/TXQE; after one that read an RS-marked descriptor both are
C7_Original ==
    [][C7_Case =>
          TxCauses(regs') =
              IF \E i \in DOMAIN last'.descs : report_status(last'.descs[i])
              THEN {"TXDW", "TXQE"} ELSE {"TXQE"}]_vars

\* C7 amended: after a drain TXQE is set; TXDW is set if the drain wrote back
\* an RS-marked descriptor as done, and is otherwise what it was before the
\* drain; no other cause changes
C7_DrainCauses ==
    [][C7_Case =>
          regs'.interrupt_cause =
              regs.interrupt_cause \cup
                  (IF WriteBacks(calls') # {} THEN {"TXDW", "TXQE"} ELSE {"TXQE"})]_vars

\* A drain of one descriptor without RS after an earlier drain had set TXDW:
\* both causes are set
C7_Witness ==
    /\ last.op = "write" /\ last.offset = TDT
    /\ status = "running"
    /\ tx_ring.some /\ is_empty(tx_ring)
    /\ Len(last.descs) = 1
    /\ ~report_status(last.descs[1])
    /\ Ops(calls, {"send"}) # {}
    /\ TxCauses(regs) = {"TXDW", "TXQE"}

----------------------------------------------------------------------------
(* Drains of the transmit ring over descriptor sequences: frames of several *)
(* legacy descriptors, a TCP context with segmentation and its data, and    *)
(* descriptors the drain refuses                                            *)

\* TDT words: up to 3 descriptors committed
DrainTailWords == {1, 2, 3}

\* A header prototype of 54 bytes: Ethernet (14), IPv4 (20, identification
\* 0xFFFF), TCP (20, sequence number 0xFFFFFFFE, flags FIN PSH ACK)
DrainHeader ==
    [i \in 1 .. 54 |->
        CASE i = 1 -> 2
          [] i \in {19, 20} -> 255
          [] i \in {39, 40, 41} -> 255
          [] i = 42 -> 254
          [] i = 48 -> 25
          [] OTHER -> 0]

DrainPayload == <<7, 8, 9, 10, 11>>

DrainLegacy ==
    [kind |-> "Legacy", buffer |-> 4096, data |-> <<1, 2>>, cmd_eop |-> TRUE,
     cmd_ic |-> FALSE, cmd_rs |-> FALSE, status_dd |-> FALSE]

\* A context that asks for segments of 2 payload bytes, with status reported
DrainContext ==
    [kind |-> "TcpContext", ip_css |-> 14, ip_cso |-> 24, ip_cse |-> 33,
     tu_css |-> 34, tu_cso |-> 50, tu_cse |-> 0, paylen |-> Len(DrainPayload),
     tucmd_tcp |-> TRUE, tucmd_ip |-> TRUE, tucmd_tse |-> TRUE, tucmd_rs |-> TRUE,
     status_dd |-> FALSE, hdrlen |-> Len(DrainHeader), mss |-> 2]

DrainData ==
    [kind |-> "TcpData", buffer |-> 12288, data |-> DrainHeader \o DrainPayload,
     dcmd_eop |-> TRUE, dcmd_rs |-> FALSE, popts_ixsm |-> FALSE,
     popts_txsm |-> FALSE, status_dd |-> FALSE]

\* What the guest may have put in a slot: a legacy frame; the first part of a
\* legacy frame, with RS; a legacy descriptor with a null buffer; the context;
\* its data, without and with checksum insertion
DrainDescriptors ==
    {DrainLegacy,
     [DrainLegacy EXCEPT !.buffer = 8192, !.data = <<3>>, !.cmd_eop = FALSE,
                         !.cmd_rs = TRUE],
     [DrainLegacy EXCEPT !.buffer = 0, !.data = <<4>>, !.cmd_rs = TRUE],
     DrainContext,
     DrainData,
     [DrainData EXCEPT !.dcmd_rs = TRUE, !.popts_ixsm = TRUE, !.popts_txsm = TRUE]}

\* The guest has programmed a transmit ring of 8 descriptors (TDLEN written)
InitDrain ==
    /\ InitWith([Registers_default EXCEPT !.td_len = 1])
    /\ ~enable_interrupt_mitigation

DrainEnable == Bar0Write(TCTL, 2, NoEnv(0))

DrainTailWrite ==
    \E w \in DrainTailWords :
        LET n == IF tx_ring.some THEN tx_reads(tx_ring, DescriptorTail_unpack(w)) ELSE 0
        IN /\ n <= MaxDrain
           /\ \E descs \in [1 .. n -> DrainDescriptors], send_ok \in BOOLEAN :
                 Bar0Write(TDT, w, [d |-> 0, descs |-> descs, send_ok |-> send_ok])

DrainHeadRead == Bar0Read(TDH)

NextDrain == DrainEnable \/ DrainTailWrite \/ DrainHeadRead

SpecDrain == InitDrain /\ [][NextDrain]_vars

----------------------------------------------------------------------------
(* Properties of the drain *)

\* A TDT write that finds a TX ring
DrainCase ==
    /\ last'.op = "write" /\ last'.bar = 0 /\ last'.offset = TDT
    /\ last'.result = "Ok"
    /\ tx_ring.some

\* No host.send of the entry point failed
SendsOk(cs) == \A i \in Ops(cs, {"send"}) : cs[i].ok

IsSend(c) == c.op = "send"

\* The frames handed to host.send, in the order of the calls
Frames(cs) ==
    LET sent == SelectSeq(cs, IsSend)
    IN [i \in 1 .. Len(sent) |-> sent[i].data]

\* The drain loop as it starts: TDT stored, the ring's tail taken from it
DrainStart ==
    LET a == access(Dev, "td_t", DescriptorTail_unpack(last'.buffer), 0,
                    last'.buffer, TRUE)
    IN [dev |-> [a.dev EXCEPT !.tx_ring.tail = a.dev.regs.td_t],
        seq |-> TransmitDescriptorSequence_default,
        report_status |-> FALSE]

\* The states of the drain loop before its first turn and after every turn
RECURSIVE tx_turns(_, _)
tx_turns(t, descs) ==
    IF t.dev.status # "running" \/ is_empty(t.dev.tx_ring) \/ descs = <<>>
    THEN <<t>>
    ELSE <<t>> \o tx_turns(tx_step(t, Head(descs), TRUE), Tail(descs))

DrainTurns == tx_turns(DrainStart, last'.descs)

\* The host calls of the k-th turn
TurnCalls(turns, k) ==
    SubSeq(turns[k + 1].dev.calls, Len(turns[k].dev.calls) + 1,
           Len(turns[k + 1].dev.calls))

\* The drain read legacy descriptors only, none with a null buffer or asking
\* for a checksum, and no send failed
C21_Case ==
    /\ DrainCase
    /\ SendsOk(calls')
    /\ \A i \in DOMAIN last'.descs :
          /\ last'.descs[i].kind = "Legacy"
          /\ last'.descs[i].buffer # 0
          /\ ~last'.descs[i].cmd_ic

\* The frames of a run of legacy descriptors: the buffers since the last EOP,
\* concatenated, at every EOP
RECURSIVE C21_Expected(_, _)
C21_Expected(descs, pending) ==
    IF descs = <<>> THEN <<>>
    ELSE LET data == pending \o Head(descs).data
         IN IF Head(descs).cmd_eop
            THEN <<data>> \o C21_Expected(Tail(descs), <<>>)
            ELSE C21_Expected(Tail(descs), data)

\* C21: a drain without TCP context descriptors and without fault calls
\* host.send once per EOP descriptor, in ring order, with the concatenation
\* of the buffers of the descriptors read since the previous EOP, and returns
C21_FramePerEop ==
    [][C21_Case =>
          /\ status' = "running"
          /\ Frames(calls') = C21_Expected(last'.descs, <<>>)]_vars

\* A frame of two descriptors was sent as one
C21_Witness ==
    /\ last.op = "write" /\ last.offset = TDT
    /\ status = "running"
    /\ Len(last.descs) = 2
    /\ last.descs[1].kind = "Legacy" /\ ~last.descs[1].cmd_eop
    /\ Frames(calls) = <<<<3, 1, 2>>>>

\* The k-th turn of the drain finishes a sequence under a context with TSE
\* whose payload has the length the context announces
C22_Case(turns, k) ==
    LET seq == turns[k].seq
        desc == last'.descs[k]
    IN /\ seq.tcp_context.some
       /\ seq.tcp_context.desc.tucmd_tse
       /\ seq.tcp_context.desc.mss > 0
       /\ desc.kind = "TcpData" /\ desc.buffer # 0 /\ desc.dcmd_eop
       /\ Len(seq.data \o desc.data) =
             seq.tcp_context.desc.hdrlen + seq.tcp_context.desc.paylen

\* Offsets, from 0, of the header bytes the device fills in per segment: IP
\* total length and identification, TCP sequence number and flags, and the
\* two checksum fields
C22_Patched(tcp_context) ==
    LET ip == tcp_context.ip_css
        tu == tcp_context.tu_css
    IN {ip + 2, ip + 3, ip + 4, ip + 5}
       \cup {tu + 4, tu + 5, tu + 6, tu + 7, tu + 13}
       \cup {tcp_context.ip_cso, tcp_context.ip_cso + 1,
             tcp_context.tu_cso, tcp_context.tu_cso + 1}

\* The frames of the k-th turn are the segments of its sequence: as many as
\* ceil(paylen / mss), each of them header bytes followed by the next chunk
\* of the payload; the header bytes outside exempt are the prototype's
C22_Segmented(turns, k, exempt) ==
    \A tcp_context \in {turns[k].seq.tcp_context.desc},
       data \in {turns[k].seq.data \o last'.descs[k].data},
       sent \in {Frames(TurnCalls(turns, k))} :
        LET header == SubSeq(data, 1, tcp_context.hdrlen)
            payload == SubSeq(data, tcp_context.hdrlen + 1, Len(data))
            count == (tcp_context.paylen + tcp_context.mss - 1) \div tcp_context.mss
        IN /\ Len(sent) = count
           /\ \A i \in 1 .. Len(sent) :
                 /\ Len(sent[i]) <= tcp_context.hdrlen + tcp_context.mss
                 /\ \A j \in (1 .. tcp_context.hdrlen) \ {e + 1 : e \in exempt} :
                       sent[i][j] = header[j]
                 /\ SubSeq(sent[i], tcp_context.hdrlen + 1, Len(sent[i])) =
                       SubSeq(payload, ((i - 1) * tcp_context.mss) + 1,
                              IF i * tcp_context.mss < Len(payload)
                              THEN i * tcp_context.mss ELSE Len(payload))

C23_Refused(seq, desc) ==
    \/ desc.kind = "Legacy" /\ seq.tcp_context.some
    \/ desc.kind = "TcpData" /\ ~seq.tcp_context.some
    \/ desc.kind = "TcpContext" /\ seq.tcp_context.some
    \/ desc.kind = "Legacy" /\ desc.buffer = 0 /\ ~desc.cmd_ic
    \/ desc.kind = "TcpData" /\ desc.buffer = 0

\* C23: a descriptor the sequence refuses (legacy under a context, TCP data
\* without context, a second context, a null buffer) is skipped: head
\* advances by one, no bytes are appended, no frame is sent in that turn, and
\* the drain goes on to the end of the ring
C23_Skipped ==
    [][(DrainCase /\ SendsOk(calls')) =>
          \A turns \in {DrainTurns} :
             /\ \A k \in 1 .. Len(turns) - 1 :
                   C23_Refused(turns[k].seq, last'.descs[k]) =>
                       /\ turns[k + 1].dev.tx_ring.head =
                             (turns[k].dev.tx_ring.head + 1) % tx_ring.length
                       /\ turns[k + 1].seq.data = turns[k].seq.data
                       /\ Frames(TurnCalls(turns, k)) = <<>>
                       /\ turns[k + 1].dev.status = "running"
             /\ tx_ring' = turns[Len(turns)].dev.tx_ring
             /\ Frames(calls') = Frames(turns[Len(turns)].dev.calls)
             /\ status' = "running" => is_empty(tx_ring')]_vars

\* A TCP data descriptor without context was skipped and the legacy frame
\* after it sent
C23_Witness ==
    /\ last.op = "write" /\ last.offset = TDT
    /\ status = "running"
    /\ Len(last.descs) = 2
    /\ last.descs[1].kind = "TcpData"
    /\ last.descs[2] = DrainLegacy
    /\ is_empty(tx_ring)
    /\ Frames(calls) = <<<<1, 2>>>>

\* C24: when host.send fails in a drain, the drain still returns, with the
\* ring drained and TXQE reported
C24_SendFailure ==
    [][(DrainCase /\ ~SendsOk(calls')) =>
          /\ status' = "running"
          /\ is_empty(tx_ring')
          /\ "TXQE" \in regs'.interrupt_cause]_vars

\* What the k-th turn wrote to the ring: nothing, or the descriptor with DD
\* set, at the slot that was the head
C27_Written(turns, k, reported) ==
    LET written == WriteBacks(TurnCalls(turns, k))
        cs == TurnCalls(turns, k)
    IN IF reported
       THEN /\ Cardinality(written) = 1
            /\ \A i \in written :
                  /\ cs[i].slot = turns[k].dev.tx_ring.head
                  /\ cs[i].desc = [last'.descs[k] EXCEPT !.status_dd = TRUE]
            /\ turns[k + 1].dev.tx_ring.head =
                  (turns[k].dev.tx_ring.head + 1) % tx_ring.length
       ELSE Ops(cs, {"dma_write"}) = {}

C32_TotalLength ==
    [][(DrainCase /\ SendsOk(calls')) =>
          \A turns \in {DrainTurns} :
             \A k \in 1 .. Len(turns) - 1 :
                (C22_Case(turns, k) /\ turns[k].seq.tcp_context.desc.tucmd_ip) =>
                    \A ip_css \in {turns[k].seq.tcp_context.desc.ip_css},
                       sent \in {Frames(TurnCalls(turns, k))} :
                        \A i \in DOMAIN sent :
                            Slice(sent[i], ip_css + 2, 2) =
                                to_be_bytes(Len(sent[i]) - ip_css)]_vars

\* C36: after a drain that returns, the TDH register is the ring's head,
\* which is the TDT value just written
C36_HeadIsTail ==
    [][(DrainCase /\ status' = "running") =>
          /\ tx_ring'.head = DescriptorTail_unpack(last'.buffer)
          /\ regs'.td_h = tx_ring'.head]_vars

\* The bytes a run of legacy descriptors leaves without EOP
RECURSIVE C37_Pending(_, _)
C37_Pending(descs, pending) ==
    IF descs = <<>> THEN pending
    ELSE IF Head(descs).cmd_eop THEN C37_Pending(Tail(descs), <<>>)
    ELSE C37_Pending(Tail(descs), pending \o Head(descs).data)

C37_Legacy(descs) ==
    \A i \in DOMAIN descs :
        /\ descs[i].kind = "Legacy" /\ descs[i].buffer # 0 /\ ~descs[i].cmd_ic

\* Two TDT writes in a row, both draining legacy descriptors: the first
\* ended on a descriptor without EOP, the second holds the EOP
C37_Case ==
    /\ DrainCase /\ SendsOk(calls')
    /\ last.op = "write" /\ last.bar = 0 /\ last.offset = TDT /\ last.result = "Ok"
    /\ C37_Legacy(last.descs) /\ C37_Legacy(last'.descs)
    /\ C37_Pending(last.descs, <<>>) # <<>>
    /\ \E i \in DOMAIN last'.descs : last'.descs[i].cmd_eop

\* C37: the bytes a drain left without EOP are sent with the bytes of the
\* next drain, in one frame, at its first EOP
C37_CarriedOver ==
    [][C37_Case =>
          Frames(calls') =
              C21_Expected(last'.descs, C37_Pending(last.descs, <<>>))]_vars

----------------------------------------------------------------------------
(* The descriptor ring engine on its own: read_head and                    *)
(* write_and_advance_head applied to the rings the guest has set up, the   *)
(* empty ones included                                                     *)

RingNames == {"rx_ring", "tx_ring"}

RingReadHead ==
    \E which \in RingNames :
        /\ status = "running"
        /\ Dev[which].some
        /\ LET r == read_head(Dev, which)
           IN /\ Set(r.dev)
              /\ last' = [op |-> "read_head", which |-> which,
                          result |-> r.result]

RingWriteAndAdvanceHead ==
    \E which \in RingNames, desc \in RxDescriptors :
        /\ status = "running"
        /\ Dev[which].some
        /\ LET r == write_and_advance_head(Dev, which, desc)
           IN /\ Set(r.dev)
              /\ last' = [op |-> "write_and_advance_head", which |-> which,
                          desc |-> desc, result |-> r.result]

NextRing ==
    \/ RxLengthWrite \/ RxHeadWrite \/ RxTailWrite \/ RxControlWrite
    \/ DrainEnable
    \/ RingReadHead \/ RingWriteAndAdvanceHead

SpecRing == Init /\ [][NextRing]_vars

C28_Case == last'.op \in {"read_head", "write_and_advance_head"}

\* The ring an operation of the ring engine was applied to, before and after
C28_Ring == IF last'.which = "rx_ring" THEN rx_ring ELSE tx_ring

C28_RingAfter == IF last'.which = "rx_ring" THEN rx_ring' ELSE tx_ring'

\* The slots hardware owns: from head up to tail, modulo length
C28_Owned(ring) ==
    LET n == IF ring.tail < ring.length
             THEN ((ring.tail - ring.head) + ring.length) % ring.length
             ELSE ring.length
    IN {(ring.head + i) % ring.length : i \in 0 .. n - 1}

----------------------------------------------------------------------------
(* Reset, by CTRL.RST or by the host, of a device whose registers, rings,  *)
(* link, interrupt mitigation and timer the guest has set up               *)

ResetControlWords == {64, 2 ^ 26, (2 ^ 26) + 64}

ResetSetupWrites ==
    {<<RDLEN, 128>>, <<RDT, 3>>, <<RCTL, 2>>, <<TCTL, 2>>, <<RAL0, 5>>, <<IMS, 4>>}

InitReset == \E mac \in Macs : InitDevice(Registers_default, mac)

ResetCtrlWrite == \E w \in ResetControlWords : Bar0Write(CTRL, w, NoEnv(0))

ResetHost == Reset

ResetSetupWrite == \E p \in ResetSetupWrites : Bar0Write(p[1], p[2], NoEnv(0))

ResetItrWrite == \E w \in ItrWords : Bar0Write(ITR, w, NoEnv(0))

ResetTimerElapsed == TimerElapsed(0)

ResetTimerFires == TimerFires(0)

NextReset ==
    \/ ResetCtrlWrite \/ ResetHost \/ ResetSetupWrite \/ ResetItrWrite
    \/ ResetTimerElapsed \/ ResetTimerFires \/ Tick

SpecReset == InitReset /\ [][NextReset]_vars

\* The last entry point was a reset: the host's, or a CTRL write with RST
WasReset ==
    \/ last.op = "reset"
    \/ /\ last.op = "write" /\ last.bar = 0 /\ last.offset = CTRL
       /\ last.result = "Ok" /\ BitSet(last.buffer, 26)

\* The MAC of the EEPROM image
ImageMac == Reverse(eeprom.initial_eeprom.ethernet_address)

C12_Candidate ==
    /\ last'.op = "write" /\ last'.bar = 0 /\ last'.result = "Ok"
    /\ \/ last'.offset \in {ICR, ICS, IMS, IMC}
       \/ /\ last'.offset = CTRL
          /\ BitSet(last'.buffer, 6) /\ ~BitSet(last'.buffer, 26)
    /\ Pending'

C19_Case ==
    /\ last'.op = "write" /\ last'.bar = 0 /\ last'.offset = CTRL
    /\ last'.len = 4 /\ last'.result = "Ok"
    /\ BitSet(last'.buffer, 6) /\ ~BitSet(last'.buffer, 26)

\* A mitigation window is active at the time of the write
C19_Window ==
    interrupt_mitigation.some /\ is_active_at(interrupt_mitigation, now')

\* C19: a CTRL write with SLU = 1 and RST = 0 sets STATUS.LU, the PHY's
\* link_status and the LSC cause (masked or not); it issues exactly one
\* host.trigger_interrupt when the mask has LSC and no mitigation window is
\* active, and none when the mask is empty
C19_LinkUp ==
    [][C19_Case =>
          /\ regs'.status.LU
          /\ phy'.status.link_status
          /\ "LSC" \in regs'.interrupt_cause
          /\ ("LSC" \in regs.interrupt_mask /\ ~C19_Window) => Triggers(calls') = 1
          /\ regs.interrupt_mask = {} => Triggers(calls') = 0]_vars

\* The link came up and was reported by an interrupt that opened a window
C19_Witness ==
    /\ last.op = "write" /\ last.bar = 0 /\ last.offset = CTRL /\ last.buffer = 64
    /\ regs.status.LU /\ phy.status.link_status
    /\ regs.interrupt_mask = {"LSC"}
    /\ Triggers(calls) = 1
    /\ interrupt_mitigation.some

----------------------------------------------------------------------------
(* The EEPROM under guest writes of EECD and resets *)

MaxBits == 16

\* SK, CS and DI: without CS the clock at either level; with CS the clock low,
\* or high with DI at either level
EecdWords == {0, 1, 2, 3, 7}

EepromAddresses == {63}

\* The bits of a read of the word at address: the opcode, then the address,
\* most significant bit first
ReadBits(address) ==
    <<1, 1, 0>> \o [i \in 1 .. ADDRESS_BITS |-> Bit(address, ADDRESS_BITS - i)]

IsPrefix(p, q) == Len(p) <= Len(q) /\ \A i \in 1 .. Len(p) : p[i] = q[i]

\* Opcodes a guest may clock in besides READ: all bits zero, and the one that
\* differs from READ in its last bit
EepromOpcodes == {0, 7}

\* The bits of an opcode, most significant bit first
OpcodeBits(opcode) == [i \in 1 .. OPCODE_BITS |-> Bit(opcode, OPCODE_BITS - i)]

\* The bits a guest may have clocked in: those of the start of a read, or
\* of another opcode
EepromStreams ==
    {SubSeq(ReadBits(address), 1, n) :
        address \in EepromAddresses, n \in 0 .. OPCODE_BITS + ADDRESS_BITS}
    \cup {SubSeq(OpcodeBits(opcode), 1, n) :
             opcode \in EepromOpcodes, n \in 0 .. OPCODE_BITS}

\* new_e1000 constructs the device without interrupt mitigation
InitEeprom ==
    /\ InitWith(Registers_default)
    /\ ~enable_interrupt_mitigation

\* The guest drives the wires at will, but the bits it clocks in are those
\* of a read of one of the addresses, or those of another opcode
EecdWrite == \E w \in EecdWords :
    /\ eeprom.bit_index <= MaxBits
    /\ microwire.k <= MaxBits
    /\ Clocked(microwire, regs.eecd, EepromControlAndData_unpack(w)).bits
           \in EepromStreams
    /\ Bar0Write(EECD, w, NoEnv(0))

EepromReset == Reset

NextEeprom == EecdWrite \/ EepromReset

SpecEeprom == InitEeprom /\ [][NextEeprom]_vars

\* C13: once packed, the 64 EEPROM words never change (under EECD writes
\* and resets), and their 16 bit wrapping sum is 0xBABA
C13_EepromImage ==
    [][/\ WrappingSum(eeprom.data, EepromLength) = DESIRED_CHECKSUM
       /\ eeprom'.data = eeprom.data]_vars

\* A reset taken in the middle of a read, the words holding the MAC
C13_Witness ==
    /\ last.op = "reset"
    /\ eeprom.stage.kind = "Reading"
    /\ eeprom.data[0] = 2 + (256 * 3)
    /\ eeprom.data[EepromLength - 1] # 0

\* The guest, in a transaction in which it has so far clocked in bits of a
\* read of the word at address, writes EECD and keeps CS high
C14_Clocking(address) ==
    /\ microwire.selected /\ IsPrefix(microwire.bits, ReadBits(address))
    /\ regs.eecd.CS
    /\ last'.op = "write" /\ last'.bar = 0 /\ last'.offset = EECD
    /\ BitSet(last'.buffer, 1)

\* It has clocked in the opcode and the whole address, and the write is an
\* SK rising edge
C14_Case(address) ==
    /\ C14_Clocking(address)
    /\ microwire.bits = ReadBits(address)
    /\ ~regs.eecd.SK /\ BitSet(last'.buffer, 0)

\* C14: after a CS rising edge and the bits 1,1,0 and six address bits A
\* (most significant first) clocked in, the k-th further SK rising edge
\* (k = 0, 1, ...) drives DO to bit 15 - (k mod 16) of
\* data[(A + k div 16) mod 64]; the device serves the whole transaction
C14_ReadStreams ==
    [][\A address \in EepromAddresses :
          /\ C14_Clocking(address) => status' = "running"
          /\ C14_Case(address) =>
                regs'.eecd.DO =
                    BitSet(eeprom.data[(address + (microwire.k \div 16)) % EepromLength],
                           15 - (microwire.k % 16))]_vars

\* An EECD write with CS = 0 is followed by an EECD write that raises CS and
\* leaves SK at the level the register held
C29_Raise ==
    /\ last.op = "write" /\ last.bar = 0 /\ last.offset = EECD
    /\ last.result = "Ok" /\ ~BitSet(last.buffer, 1)
    /\ last'.op = "write" /\ last'.bar = 0 /\ last'.offset = EECD
    /\ BitSet(last'.buffer, 1)
    /\ BitSet(last'.buffer, 0) = regs.eecd.SK

\* The device evaluates the opcode: it leaves WaitingOpcode for the address,
\* or rejects the opcode
C29_Evaluated ==
    /\ last'.op = "write" /\ last'.bar = 0 /\ last'.offset = EECD
    /\ eeprom.stage.kind = "WaitingOpcode"
    /\ eeprom'.stage.kind = "WaitingAddress" \/ status' = "panicked"

\* C29: whatever the stage and the SK level before, an EECD write with
\* CS = 0 followed by one that raises CS leaves the interface in
\* WaitingOpcode with opcode 0 and bit_index 0, and the opcode of a
\* transaction is evaluated only when exactly three SK rising edges have
\* clocked DI in under CS
C29_NewTransaction ==
    [][/\ C29_Raise =>
            /\ eeprom'.stage = Stage("WaitingOpcode", 0)
            /\ eeprom'.bit_index = 0
       /\ (C29_Evaluated /\ microwire.selected) =>
            Len(microwire.bits) = OPCODE_BITS]_vars

\* The guest has clocked in three opcode bits other than 1,1,0 and lets SK
\* fall under CS
C30_Case ==
    /\ microwire.selected
    /\ Len(microwire.bits) = OPCODE_BITS
    /\ microwire.bits # OpcodeBits(MICROWIRE_OPCODE_READ)
    /\ regs.eecd.CS /\ regs.eecd.SK
    /\ last'.op = "write" /\ last'.bar = 0 /\ last'.offset = EECD
    /\ BitSet(last'.buffer, 1) /\ ~BitSet(last'.buffer, 0)

\* C30: an opcode other than READ makes the EECD write fail with
\* UnsupportedEepromOpcode as the result of the BAR access; the EEPROM words
\* stay as they are and the device goes on serving EECD writes
C30_OpcodeRejected ==
    [][C30_Case =>
          /\ last'.result = "UnsupportedEepromOpcode"
          /\ status' = "running"
          /\ eeprom'.data = eeprom.data]_vars

----------------------------------------------------------------------------
(* Register accesses of every shape through BAR0 and BAR1: the interrupt   *)
(* cause and mask registers, an offset without register, an unaligned      *)
(* offset, accesses of 2 and of 4 bytes                                    *)

\* Offset 4 is 4 byte aligned and matches no register; offset 2 is unaligned
RegsBar0Offsets == {ICR, ICS, IMS, IMC, 4, 2}

RegsBar1Offsets == {0, 4, 8}

RegsLengths == {2, 4}

\* LSC; all six emulated cause bits
RegsWords == {4, 663}

\* What the caller's buffer holds before a read
RegsBuffers == {0, 4}

\* The BAR0 offsets posted through IOADDR
RegsIoAddrs == {ICR, IMS, 4, 2}

\* The words of an access: an access of 4 bytes writes any of the words, an
\* access that is not of 4 bytes carries the one word
Words(len, write) ==
    IF len # 4 THEN {4} ELSE IF write THEN RegsWords ELSE RegsBuffers

\* new_e1000 constructs the device without interrupt mitigation
InitRegs ==
    /\ InitWith(Registers_default)
    /\ ~enable_interrupt_mitigation

RegsBar0Access ==
    \E offset \in RegsBar0Offsets, len \in RegsLengths, write \in BOOLEAN :
        \E w \in Words(len, write) :
            RegionAccessBar0(offset, len, w, write, NoEnv(0))

RegsBar1Access ==
    \E offset \in RegsBar1Offsets, len \in RegsLengths, write \in BOOLEAN :
        \E w \in IF offset = 0 /\ write /\ len = 4 THEN RegsIoAddrs ELSE Words(len, write) :
            RegionAccessBar1(offset, len, w, write, NoEnv(0))

NextRegs == RegsBar0Access \/ RegsBar1Access

SpecRegs == InitRegs /\ [][NextRegs]_vars

\* The device: all its state, the EEPROM and the PHY included
Device ==
    <<regs, rx_ring, tx_ring, receive_state, interrupt_mitigation, timer,
      eeprom, phy, io_addr, status>>

\* An access that the shape test of its region rejects
C15_BadShape ==
    /\ last'.op \in {"read", "write"}
    /\ \/ last'.len # 4
       \/ last'.bar = 0 /\ last'.offset % 4 # 0
       \/ last'.bar = 1 /\ last'.offset = 4 /\ io_addr % 4 # 0

\* A BAR1 access at an offset other than 0 and 4
C15_BadOffset ==
    /\ last'.op \in {"read", "write"} /\ last'.bar = 1 /\ last'.offset \notin {0, 4}

\* C15 as stated: every BAR1 access at an offset other than 0 and 4 fails
\* with UnsupportedIoOffset
C15_Original ==
    [][C15_BadOffset => last'.result = "UnsupportedIoOffset"]_vars

\* C15: an access of a length other than 4, or a BAR0 access at an offset
\* that is no multiple of 4, fails with BadAccessShape; a 4 byte BAR1 access
\* at an offset other than 0 and 4 fails with UnsupportedIoOffset; either
\* way no device state changes, the caller's buffer stays as it was and no
\* host operation is invoked
C15_Rejected ==
    [][/\ C15_BadShape => last'.result = "BadAccessShape"
       /\ (C15_BadOffset /\ last'.len = 4) => last'.result = "UnsupportedIoOffset"
       /\ (C15_BadShape \/ C15_BadOffset) =>
             /\ Device' = Device
             /\ last'.data = last'.buffer
             /\ calls' = <<>>]_vars

\* A rejected access to a device with causes pending and unmasked
C15_Witness ==
    /\ last.op = "write" /\ last.bar = 0 /\ last.offset = 2
    /\ last.result = "BadAccessShape"
    /\ Pending

\* The state of a device value, as Device lists it
DeviceOf(s) ==
    <<s.regs, s.rx_ring, s.tx_ring, s.receive_state, s.interrupt_mitigation, s.timer,
      s.eeprom, s.phy, s.io_addr, s.status>>

\* A 4 byte access of BAR1 at offset
C16_Bar1(offset, op) ==
    last'.op = op /\ last'.bar = 1 /\ last'.offset = offset /\ last'.len = 4

\* C16: a write of X at BAR1 offset 0 posts X and changes nothing else, a
\* read at BAR1 offset 0 returns the posted X and changes nothing; an access
\* at BAR1 offset 4 then has the result, the data and the effects (on the
\* device and on the host) of the same access made through BAR0 at offset X,
\* the BadAccessShape failure for an unaligned X included
C16_Indirect ==
    [][/\ C16_Bar1(0, "write") =>
             /\ last'.result = "Ok" /\ io_addr' = last'.buffer
             /\ Device' = DeviceOf([Dev EXCEPT !.io_addr = last'.buffer])
             /\ calls' = <<>>
       /\ C16_Bar1(0, "read") =>
             /\ last'.result = "Ok" /\ last'.data = io_addr
             /\ Device' = Device /\ calls' = <<>>
       /\ (last'.op \in {"read", "write"} /\ last'.bar = 1 /\ last'.offset = 4) =>
             LET a == region_access_bar0(Dev, io_addr, last'.len, last'.buffer,
                                         last'.op = "write", NoEnv(0))
             IN /\ last'.result = a.result /\ last'.data = a.data
                /\ Device' = DeviceOf(a.dev)
                /\ calls' = a.dev.calls]_vars

\* A write through BAR1 to the posted IMS that delivers a pending interrupt
C16_Witness ==
    /\ last.op = "write" /\ last.bar = 1 /\ last.offset = 4 /\ last.result = "Ok"
    /\ io_addr = IMS
    /\ Triggers(calls) = 1

\* A 4 byte BAR0 access of the register at offset that succeeded
C17_Access(offset, op) ==
    /\ last'.op = op /\ last'.bar = 0 /\ last'.offset = offset /\ last'.len = 4
    /\ last'.result = "Ok"

\* The word whose set bits are those of the causes S
CauseWord(S, word) ==
    /\ word \in 0 .. 1023
    /\ \A n \in 0 .. 9 :
          BitSet(word, n) <=> \E c \in S : CauseBit[c] = n

\* C17: a read of ICR returns the causes held before the read and leaves
\* the cause register empty; a read of ICS returns the same value and leaves
\* the cause register as it is; neither changes the mask or calls the host
C17_CauseReads ==
    [][/\ C17_Access(ICR, "read") =>
             /\ CauseWord(regs.interrupt_cause, last'.data)
             /\ regs'.interrupt_cause = {}
             /\ regs'.interrupt_mask = regs.interrupt_mask
             /\ calls' = <<>>
       /\ C17_Access(ICS, "read") =>
             /\ CauseWord(regs.interrupt_cause, last'.data)
             /\ regs'.interrupt_cause = regs.interrupt_cause
             /\ regs'.interrupt_mask = regs.interrupt_mask
             /\ calls' = <<>>]_vars

\* A read of ICR that returned all six causes, unmasked, and cleared them
C17_Witness ==
    /\ last.op = "read" /\ last.bar = 0 /\ last.offset = ICR /\ last.result = "Ok"
    /\ last.data = 663
    /\ regs.interrupt_cause = {}
    /\ regs.interrupt_mask = CauseNames

\* The causes named by the bits of a written word
WordCauses(word) == {c \in CauseNames : BitSet(word, CauseBit[c])}

\* C18: a write of W sets the causes of W (ICS), clears them (ICR), sets
\* them in the mask (IMS) or clears them in the mask (IMC); a cause write
\* leaves the mask and a mask write the causes as they are, whatever was
\* written before
C18_CauseWrites ==
    [][/\ C17_Access(ICS, "write") =>
             /\ regs'.interrupt_cause = regs.interrupt_cause \cup WordCauses(last'.buffer)
             /\ regs'.interrupt_mask = regs.interrupt_mask
       /\ C17_Access(ICR, "write") =>
             /\ regs'.interrupt_cause = regs.interrupt_cause \ WordCauses(last'.buffer)
             /\ regs'.interrupt_mask = regs.interrupt_mask
       /\ C17_Access(IMS, "write") =>
             /\ regs'.interrupt_mask = regs.interrupt_mask \cup WordCauses(last'.buffer)
             /\ regs'.interrupt_cause = regs.interrupt_cause
       /\ C17_Access(IMC, "write") =>
             /\ regs'.interrupt_mask = regs.interrupt_mask \ WordCauses(last'.buffer)
             /\ regs'.interrupt_cause = regs.interrupt_cause]_vars

\* A write of ICR that cleared LSC of six causes, after other writes of
\* the four registers
C18_Witness ==
    /\ last.op = "write" /\ last.bar = 0 /\ last.offset = ICR /\ last.result = "Ok"
    /\ last.buffer = 4
    /\ regs.interrupt_cause = CauseNames \ {"LSC"}
    /\ regs.interrupt_mask = {"LSC"}

\* A 4 byte BAR0 access at an aligned offset that matches no register
C20_Case ==
    /\ last'.op \in {"read", "write"} /\ last'.bar = 0 /\ last'.len = 4
    /\ last'.offset % 4 = 0
    /\ ~access_register(Dev, last'.offset, last'.buffer, last'.op = "write",
                        NoEnv(0)).matched

\* C20: a BAR0 read at a 4 byte aligned offset that matches no register
\* returns zero, a write there succeeds; neither changes the device nor
\* calls the host
C20_Unmatched ==
    [][C20_Case =>
          /\ last'.result = "Ok"
          /\ last'.op = "read" => last'.data = 0
          /\ Device' = Device
          /\ calls' = <<>>]_vars

----------------------------------------------------------------------------
(* The PHY under MDI transactions: guest writes and reads of MDIC, the     *)
(* link brought up, the MDAC cause unmasked                                 *)

\* The data of a transaction: none, and a value with bits in both bytes, the
\* link status bit among them
MdicData == {0, 4660}

\* The PHY registers addressed: the three there are, and one there is not
MdicAddresses == {1, 2, 3, 5}

\* MDIC words of every opcode, with and without the interrupt asked for; the
\* ready flag clear, and set in a read and in a word without opcode
MdicWords ==
    {MdiControl_pack([data |-> data, register_address |-> address,
                      opcode |-> opcode, ready |-> FALSE,
                      interrupt_enable |-> interrupt_enable]) :
        data \in MdicData, address \in MdicAddresses, opcode \in 0..3,
        interrupt_enable \in BOOLEAN}
    \cup {MdiControl_pack([data |-> 0, register_address |-> 1,
                           opcode |-> opcode, ready |-> TRUE,
                           interrupt_enable |-> FALSE]) : opcode \in {0, MDI_READ}}

\* new_e1000 constructs the device without interrupt mitigation
InitPhy ==
    /\ Init
    /\ ~enable_interrupt_mitigation

PhyMdicWrite == \E w \in MdicWords : Bar0Write(MDIC, w, NoEnv(0))

PhyMdicRead == Bar0Read(MDIC)

\* CTRL with SLU: the link comes up
PhyLinkUp == Bar0Write(CTRL, 64, NoEnv(0))

\* IMS with MDAC
PhyMaskWrite == Bar0Write(IMS, 512, NoEnv(0))

NextPhy ==
    \/ PhyMdicWrite \/ PhyMdicRead \/ PhyLinkUp \/ PhyMaskWrite

SpecPhy == InitPhy /\ [][NextPhy]_vars

\* The value of the PHY register at address, as the MDIC data field carries it
C31_Value(self, address) ==
    CASE address = 1 -> IF self.status.link_status THEN 4 ELSE 0
      [] address = 2 -> self.phy_identifier.identifier
      [] address = 3 -> self.phy_extended_identifier.revision
                        + (16 * self.phy_extended_identifier.model)
                        + (1024 * self.phy_extended_identifier.identifier)

\* The last entry point was a write of 4 bytes to MDIC
C31_Case ==
    /\ last'.op = "write" /\ last'.bar = 0 /\ last'.offset = MDIC
    /\ last'.len = 4 /\ last'.result = "Ok"

\* What an MDIC write with opcode read or write leaves: ready set and read as
\* 1; after a read the data field holds the value of the addressed register
\* (or stays as written when there is no such register) and the PHY is
\* untouched; MDAC is reported exactly when the interrupt was asked for
C31_Completed(m) ==
    /\ regs'.mdic.ready
    /\ BitSet(MdiControl_pack(regs'.mdic), 28)
    /\ m.opcode = MDI_READ =>
           /\ phy' = phy
           /\ regs'.mdic.data = IF m.register_address \in {1, 2, 3}
                                THEN C31_Value(phy, m.register_address)
                                ELSE m.data
    /\ m.interrupt_enable =>
           /\ "MDAC" \in regs'.interrupt_cause
           /\ Triggers(calls') = IF "MDAC" \in regs.interrupt_mask THEN 1 ELSE 0
    /\ ~m.interrupt_enable =>
           /\ regs'.interrupt_cause = regs.interrupt_cause
           /\ Triggers(calls') = 0

\* What an MDIC write with any other opcode leaves: the register as written,
\* the PHY untouched, nothing reported
C31_Bailed(m) ==
    /\ regs'.mdic = m
    /\ phy' = phy
    /\ regs'.interrupt_cause = regs.interrupt_cause
    /\ Triggers(calls') = 0

\* C31: after an MDIC write with opcode read (0b10) or write (0b01) MDIC.ready
\* reads 1, MDIC.data holds the addressed PHY register's value in the read
\* case, and MDAC is reported if and only if MDIC.interrupt_enable was set;
\* with any other opcode the transaction bails without setting ready, without
\* touching any PHY register and without reporting MDAC
C31_Transaction ==
    [][C31_Case =>
          \A m \in {MdiControl_unpack(last'.buffer)} :
              IF m.opcode \in {MDI_READ, MDI_WRITE}
              THEN C31_Completed(m)
              ELSE C31_Bailed(m)]_vars

\* The status register was read over MDIC after the link came up, without the
\* interrupt asked for: ready and the link status bit are in MDIC, and no MDAC
C31_Witness ==
    /\ last.op = "write" /\ last.bar = 0 /\ last.offset = MDIC
    /\ last.buffer = MdiControl_pack([data |-> 0, register_address |-> 1,
                                      opcode |-> MDI_READ, ready |-> FALSE,
                                      interrupt_enable |-> FALSE])
    /\ phy.status.link_status
    /\ regs.mdic.ready /\ regs.mdic.data = 4
    /\ "MDAC" \notin regs.interrupt_cause

----------------------------------------------------------------------------
(* Descriptors as the 16 bytes of their slot in guest memory                *)
(* (e1000/descriptors.rs): the slot is read reversed and unpacked into the  *)
(* fields of its type, and written back packed and reversed                  *)

\* A field of a packed layout, its bits numbered from the least significant
\* bit of the last byte (lsb0)
PackedField(name, lo, hi) == [name |-> name, lo |-> lo, hi |-> hi]

ReceiveDescriptor_layout ==
    {PackedField("buffer", 0, 63), PackedField("length", 64, 79),
     PackedField("status_dd", 96, 96), PackedField("status_eop", 97, 97)}

TransmitDescriptorLegacy_layout ==
    {PackedField("buffer", 0, 63), PackedField("length", 64, 79),
     PackedField("cso", 80, 87), PackedField("cmd_eop", 88, 88),
     PackedField("cmd_ic", 90, 90), PackedField("cmd_rs", 91, 91),
     PackedField("status_dd", 96, 96), PackedField("css", 104, 111)}

\* tucmd_tcp and tucmd_ip, which the transmit path reads, are bits 88 and 89
\* of the command field
TransmitDescriptorTcpContext_layout ==
    {PackedField("ip_css", 0, 7), PackedField("ip_cso", 8, 15),
     PackedField("ip_cse", 16, 31), PackedField("tu_css", 32, 39),
     PackedField("tu_cso", 40, 47), PackedField("tu_cse", 48, 63),
     PackedField("paylen", 64, 83), PackedField("tucmd_tcp", 88, 88),
     PackedField("tucmd_ip", 89, 89), PackedField("tucmd_tse", 90, 90),
     PackedField("tucmd_rs", 91, 91), PackedField("status_dd", 96, 96),
     PackedField("hdrlen", 104, 111), PackedField("mss", 112, 127)}

TransmitDescriptorTcpData_layout ==
    {PackedField("buffer", 0, 63), PackedField("length", 64, 83),
     PackedField("dcmd_eop", 88, 88), PackedField("dcmd_rs", 91, 91),
     PackedField("status_dd", 96, 96), PackedField("popts_ixsm", 104, 104),
     PackedField("popts_txsm", 105, 105)}

DescriptorLayouts ==
    [ReceiveDescriptor |-> ReceiveDescriptor_layout,
     Legacy |-> TransmitDescriptorLegacy_layout,
     TcpContext |-> TransmitDescriptorTcpContext_layout,
     TcpData |-> TransmitDescriptorTcpData_layout]

\* Bit n of the packed bytes: byte 16 holds bits 0 to 7
PackedBit(data, n) == Bit(data[DESCRIPTOR_LENGTH - (n \div 8)], n % 8)

\* unpack: every field of the layout takes its bits (the least significant
\* first); bits no field covers are not kept
Descriptor_unpack(layout, data) ==
    [name \in {f.name : f \in layout} |->
        LET f == CHOOSE g \in layout : g.name = name
        IN [i \in 1 .. (f.hi - f.lo + 1) |-> PackedBit(data, f.lo + i - 1)]]

\* Bit n of the packed descriptor: the bit of the field that covers it, or 0
Descriptor_bit(layout, desc, n) ==
    LET covering == {f \in layout : f.lo <= n /\ n <= f.hi}
    IN IF covering = {} THEN 0
       ELSE LET f == CHOOSE g \in covering : TRUE
            IN desc[f.name][n - f.lo + 1]

RECURSIVE Descriptor_byte(_, _, _, _)
Descriptor_byte(layout, desc, n, count) ==
    IF count = 0 THEN 0
    ELSE Descriptor_bit(layout, desc, n)
         + (2 * Descriptor_byte(layout, desc, n + 1, count - 1))

\* pack: 16 zeroed bytes into which the fields are written
Descriptor_pack(layout, desc) ==
    [k \in 1 .. DESCRIPTOR_LENGTH |->
        Descriptor_byte(layout, desc, (DESCRIPTOR_LENGTH - k) * 8, 8)]

\* read_descriptor on the bytes of a slot
read_descriptor(layout, slot) == Descriptor_unpack(layout, Reverse(slot))

\* The bytes write_descriptor puts into the slot
written_descriptor(layout, desc) == Reverse(Descriptor_pack(layout, desc))

ZeroSlot == [i \in 1 .. DESCRIPTOR_LENGTH |-> 0]

\* A TCP data descriptor as a driver writes it: buffer at 0x1000, 60 bytes,
\* DTYP = 1, and EOP, RS and DEXT in the command byte
DataSlot == [ZeroSlot EXCEPT ![2] = 16, ![9] = 60, ![11] = 16, ![12] = 41]

\* The slots read: empty, the data descriptor, all bits set, and slots with
\* one byte that has one bit, or all bits, set
DescriptorSlots ==
    {ZeroSlot, DataSlot, [i \in 1 .. DESCRIPTOR_LENGTH |-> 255]}
    \cup {[ZeroSlot EXCEPT ![k] = v] : k \in 1 .. DESCRIPTOR_LENGTH,
                                       v \in {1, 16, 32, 255}}

\* The device reads the slot as a descriptor of the given type
DescriptorRead ==
    \E kind \in DOMAIN DescriptorLayouts, slot \in DescriptorSlots :
        /\ status = "running"
        /\ last' = [op |-> "read_descriptor", kind |-> kind, slot |-> slot,
                    desc |-> read_descriptor(DescriptorLayouts[kind], slot)]
        /\ calls' = <<>>
        /\ UNCHANGED <<regs, rx_ring, tx_ring, receive_state,
                       enable_interrupt_mitigation, interrupt_mitigation, now,
                       timer, eeprom, phy, io_addr, microwire, status>>

\* The device writes the descriptor it read back, no field changed
DescriptorWriteBack ==
    /\ status = "running"
    /\ last.op = "read_descriptor"
    /\ last' = [op |-> "write_descriptor", kind |-> last.kind, slot |-> last.slot,
                written |-> written_descriptor(DescriptorLayouts[last.kind],
                                               last.desc)]
    /\ calls' = <<>>
    /\ UNCHANGED <<regs, rx_ring, tx_ring, receive_state,
                   enable_interrupt_mitigation, interrupt_mitigation, now,
                   timer, eeprom, phy, io_addr, microwire, status>>

NextDescriptor == DescriptorRead \/ DescriptorWriteBack

SpecDescriptor == InitPhy /\ [][NextDescriptor]_vars

\* C33: for the RX descriptor and each of the three TX descriptor variants,
\* the 16 bytes of a slot reversed, unpacked, packed and reversed again are
\* the original 16 bytes: a write-back that changes no field leaves the slot
\* unchanged
C33_RoundTrip ==
    last.op = "write_descriptor" => last.written = last.slot

====
